---- MODULE Spec2Model ----
(***************************************************************************)
(* A model of vue-refactorer: the path resolver (path-resolver.ts), the    *)
(* tsconfig resolver (tsconfig-resolver.ts) and the move orchestrator      *)
(* (file-mover.ts).                                                        *)
(*                                                                         *)
(* Strings are modelled by what the code does with them.  A path or an     *)
(* import specifier is the sequence of its "/"-separated segments, and a   *)
(* segment is the sequence of its "."-separated parts:                     *)
(*   "/proj/src/utils.ts"  is  << <<"proj">>, <<"src">>, <<"utils","ts">> >>*)
(*   "../a/x"              is  << <<"","","">>, <<"a">>, <<"x">> >>         *)
(*   "@/shared/Button.vue" is  << <<"@">>, <<"shared">>, <<"Button","vue">> >>*)
(* An absolute path of the file system drops the empty segment in front of *)
(* its leading "/"; an absolute import specifier keeps it.                 *)
(***************************************************************************)
EXTENDS Integers, Sequences, FiniteSets, TLC

\* ------------------------------------------------------------------------
\* Strings, segments and node's path module
\* ------------------------------------------------------------------------

\* "." and ".." and the empty segment (of "./" or of a leading "/")
Cur == <<"", "">>
Up == <<"", "", "">>
Empty == <<"">>

\* null / undefined where a path or a specifier is expected
Null == << <<"<null>">> >>

\* String.prototype.length of the atoms that occur in alias tokens
StrLen(s) ==
  CASE s = "" -> 0
    [] s \in {"@", "~", "#"} -> 1
    [] s = "lib" -> 3
    [] s = "@components" -> 11
    [] OTHER -> 4

RECURSIVE SumLen(_, _)
SumLen(seq, sepLen) ==
  IF seq = <<>> THEN 0
  ELSE IF Len(seq) = 1 THEN Head(seq)
  ELSE Head(seq) + sepLen + SumLen(Tail(seq), sepLen)

\* length of a segment "a.b" and of a "/"-joined segment sequence
SegLen(seg) == SumLen([i \in 1..Len(seg) |-> StrLen(seg[i])], 1)
PathLen(segs) == SumLen([i \in 1..Len(segs) |-> SegLen(segs[i])], 1)

IsPrefix(p, q) == Len(p) <= Len(q) /\ SubSeq(q, 1, Len(p)) = p

\* path.dirname / path.basename of an absolute path
dirname(p) == IF p = <<>> THEN <<>> ELSE SubSeq(p, 1, Len(p) - 1)
basename(p) == IF p = <<>> THEN Empty ELSE p[Len(p)]

\* path.extname of a segment: the part after the last ".", "" when there is
\* no "." or the only "." is the first character, "" for ".."
extnameSeg(seg) ==
  IF Len(seg) < 2 THEN ""
  ELSE IF seg = Up THEN ""
  ELSE IF Len(seg) = 2 /\ seg[1] = "" THEN ""
  ELSE seg[Len(seg)]

extname(segs) == IF segs = <<>> THEN "" ELSE extnameSeg(segs[Len(segs)])

\* string concatenation  path + ".ext"
AddExt(p, e) ==
  IF p = <<>> THEN << <<"", e>> >>
  ELSE [p EXCEPT ![Len(p)] = Append(@, e)]

\* str.slice(0, -currentExt.length) where currentExt = extname(str) # ""
DropExt(p) == [p EXCEPT ![Len(p)] = SubSeq(@, 1, Len(@) - 1)]

\* path.resolve(base, rel): base is absolute and normalized
RECURSIVE resolve(_, _)
resolve(base, rel) ==
  IF rel = <<>> THEN base
  ELSE LET s == Head(rel) IN
    IF s = Cur \/ s = Empty THEN resolve(base, Tail(rel))
    ELSE IF s = Up THEN resolve(dirname(base), Tail(rel))
    ELSE resolve(Append(base, s), Tail(rel))

\* path.relative(from, to) of two absolute normalized paths
RECURSIVE relative(_, _)
relative(from, to) ==
  IF from # <<>> /\ to # <<>> /\ Head(from) = Head(to)
  THEN relative(Tail(from), Tail(to))
  ELSE [i \in 1..Len(from) |-> Up] \o to

\* str.startsWith(".") / str.startsWith("/") of a relative path string
StartsWithDot(segs) == segs # <<>> /\ Len(segs[1]) >= 2 /\ segs[1][1] = ""
StartsWithSlash(segs) == Len(segs) >= 2 /\ segs[1] = Empty

\* path.isAbsolute of an import specifier
isAbsolute(spec) == StartsWithSlash(spec)

\* ------------------------------------------------------------------------
\* State
\* ------------------------------------------------------------------------

VARIABLES
  files,      \* file system: source file path -> content (its import specifiers)
  dirs,       \* file system: the directories
  configs,    \* file system: config file path -> its compilerOptions.paths
  mode,       \* which operation this behaviour runs
  pc,         \* position of the running operation
  args,       \* the operation's arguments
  out         \* what the operation has produced so far

vars == <<files, dirs, configs, mode, pc, args, out>>

\* the file system as a value
World == [files |-> files, dirs |-> dirs, configs |-> configs]

\* fs.existsSync
existsSync(w, p) == p \in DOMAIN w.files \/ p \in w.dirs \/ p \in DOMAIN w.configs
isDirectory(w, p) == p \in w.dirs

\* ------------------------------------------------------------------------
\* TsConfigResolver: config lookup and alias extraction
\* ------------------------------------------------------------------------

TsConfigName == <<"tsconfig", "json">>
JsConfigName == <<"jsconfig", "json">>
GitName == <<"", "git">>

\* pattern.replace(/\/\*$/, "")
StripWildcard(segs) ==
  IF Len(segs) >= 2 /\ segs[Len(segs)] = <<"*">>
  THEN SubSeq(segs, 1, Len(segs) - 1)
  ELSE segs

\* Array.prototype.sort((a, b) => b.alias.length - a.alias.length): stable,
\* descending alias length
RECURSIVE InsertByLen(_, _)
InsertByLen(sorted, a) ==
  IF sorted = <<>> THEN <<a>>
  ELSE IF PathLen(Head(sorted).alias) >= PathLen(a.alias)
       THEN <<Head(sorted)>> \o InsertByLen(Tail(sorted), a)
       ELSE <<a>> \o sorted

\* the rules left in file order
SortAliasesKeepOrder(aliases) == aliases

RECURSIVE SortAliases(_)
SortAliases(aliases) ==
  IF aliases = <<>> THEN <<>>
  ELSE InsertByLen(SortAliases(SubSeq(aliases, 1, Len(aliases) - 1)),
                   aliases[Len(aliases)])

\* the entries of compilerOptions.paths, in file order, as alias rules
RECURSIVE PathsToAliases(_, _, _)
PathsToAliases(paths, baseUrl, configDir) ==
  IF paths = <<>> THEN <<>>
  ELSE LET e == Head(paths)
           rest == PathsToAliases(Tail(paths), baseUrl, configDir)
       IN IF e.targets = <<>> THEN rest
          ELSE <<[alias |-> StripWildcard(e.pattern),
                  path |-> resolve(resolve(configDir, baseUrl),
                                   StripWildcard(e.targets[1]))]>> \o rest

convertPathsToAliases(paths, baseUrl, configDir) ==
  SortAliases(PathsToAliases(paths, baseUrl, configDir))

\* the upward walk from dirname(file): tsconfig.json, then jsconfig.json, stop
\* at a directory holding .git or at the root
RECURSIVE WalkUpFrom(_, _)
WalkUpFrom(w, dir) ==
  IF existsSync(w, Append(dir, TsConfigName)) THEN Append(dir, TsConfigName)
  ELSE IF existsSync(w, Append(dir, JsConfigName)) THEN Append(dir, JsConfigName)
  ELSE IF existsSync(w, Append(dir, GitName)) THEN Null
  ELSE IF dir = <<>> THEN Null
  ELSE WalkUpFrom(w, dirname(dir))

walkUpToFindConfig(w, file) == WalkUpFrom(w, dirname(file))

\* PathResolver.getAliasesForFile: the aliases of the nearest config, [] when
\* there is none.  The configs of this model carry no extends and no
\* references, so parseConfig is the alias extraction alone.
getAliasesForFile(w, file) ==
  LET cp == walkUpToFindConfig(w, file) IN
    IF cp = Null \/ cp \notin DOMAIN w.configs THEN <<>>
    ELSE convertPathsToAliases(w.configs[cp].paths, w.configs[cp].baseUrl, dirname(cp))

\* ------------------------------------------------------------------------
\* PathResolver
\* ------------------------------------------------------------------------

SourceExts == <<"ts", "tsx", "js", "jsx", "vue">>
ExtensionsToRemove == {"ts", "tsx", "js", "jsx"}

\* importPath.startsWith(alias + "/") || importPath === alias
AliasMatches(alias, importPath) ==
  (IsPrefix(alias, importPath) /\ Len(importPath) > Len(alias)) \/ importPath = alias

RECURSIVE FirstMatch(_, _)
FirstMatch(aliases, importPath) ==
  IF aliases = <<>> THEN 0
  ELSE IF AliasMatches(Head(aliases).alias, importPath) THEN 1
  ELSE LET r == FirstMatch(Tail(aliases), importPath) IN IF r = 0 THEN 0 ELSE r + 1

\* the rule resolveAliasPath substitutes: index into the file's alias list, or 0
MatchedRule(w, importPath, fromFile) ==
  FirstMatch(getAliasesForFile(w, fromFile), importPath)

resolveAliasPath(w, importPath, fromFile) ==
  LET aliases == getAliasesForFile(w, fromFile)
      i == FirstMatch(aliases, importPath)
  IN IF i = 0 THEN Null
     ELSE resolve(aliases[i].path,
                  SubSeq(importPath, Len(aliases[i].alias) + 1, Len(importPath)))

RECURSIVE FirstExisting(_, _)
FirstExisting(w, candidates) ==
  IF candidates = <<>> THEN Null
  ELSE IF existsSync(w, Head(candidates)) THEN Head(candidates)
  ELSE FirstExisting(w, Tail(candidates))

findActualFile(w, basePath) ==
  IF existsSync(w, basePath) THEN basePath
  ELSE IF extname(basePath) = ""
  THEN FirstExisting(w,
         [i \in 1..Len(SourceExts) |-> AddExt(basePath, SourceExts[i])] \o
         [i \in 1..Len(SourceExts) |-> Append(basePath, <<"index", SourceExts[i]>>)])
  ELSE Null

resolveImportPath(w, importPath, fromFile) ==
  IF isAbsolute(importPath) THEN Tail(importPath)
  ELSE LET aliasResolved == resolveAliasPath(w, importPath, fromFile) IN
    IF aliasResolved # Null THEN findActualFile(w, aliasResolved)
    ELSE findActualFile(w, resolve(dirname(fromFile), importPath))

isPathAffectedByMove(targetPath, movedFromPath) ==
  targetPath = movedFromPath
    \/ (IsPrefix(movedFromPath, targetPath) /\ Len(targetPath) > Len(movedFromPath))

getNewPathAfterMove(originalPath, movedFromPath, movedToPath) ==
  IF originalPath = movedFromPath THEN movedToPath
  ELSE IF IsPrefix(movedFromPath, originalPath) /\ Len(originalPath) > Len(movedFromPath)
  THEN resolve(movedToPath, relative(movedFromPath, originalPath))
  ELSE originalPath

preserveExtensionBehavior(newPath, originalImportPath) ==
  IF extname(originalImportPath) = "" /\ extname(newPath) # ""
       /\ extname(newPath) \in ExtensionsToRemove
  THEN DropExt(newPath)
  ELSE newPath

\* a resolver that takes no import for an alias import
isAliasImportNever(w, importPath, fromFile) == FALSE

isAliasImport(w, importPath, fromFile) ==
  FirstMatch(getAliasesForFile(w, fromFile), importPath) # 0

getOriginalAlias(w, importPath, fromFile) ==
  LET aliases == getAliasesForFile(w, fromFile)
      i == FirstMatch(aliases, importPath)
  IN IF i = 0 THEN Null ELSE aliases[i].alias

\* the alias form of absolutePath under one rule, or Null
AliasFormUnder(rule, absolutePath, originalImportPath) ==
  IF IsPrefix(rule.path, absolutePath) /\ Len(absolutePath) > Len(rule.path)
  THEN preserveExtensionBehavior(rule.alias \o relative(rule.path, absolutePath),
                                 originalImportPath)
  ELSE IF absolutePath = rule.path THEN rule.alias
  ELSE Null

RECURSIVE FirstAliasForm(_, _, _)
FirstAliasForm(aliases, absolutePath, originalImportPath) ==
  IF aliases = <<>> THEN Null
  ELSE LET r == AliasFormUnder(Head(aliases), absolutePath, originalImportPath) IN
    IF r # Null THEN r
    ELSE FirstAliasForm(Tail(aliases), absolutePath, originalImportPath)

tryConvertToAliasPath(w, absolutePath, fromFile, originalImportPath) ==
  FirstAliasForm(getAliasesForFile(w, fromFile), absolutePath, originalImportPath)

\* aliases.find((alias) => alias.alias === preferredAlias)
RECURSIVE FindAlias(_, _)
FindAlias(aliases, preferredAlias) ==
  IF aliases = <<>> THEN 0
  ELSE IF Head(aliases).alias = preferredAlias THEN 1
  ELSE LET r == FindAlias(Tail(aliases), preferredAlias) IN IF r = 0 THEN 0 ELSE r + 1

tryConvertToSpecificAliasPath(w, absolutePath, preferredAlias, fromFile, originalImportPath) ==
  LET aliases == getAliasesForFile(w, fromFile)
      i == FindAlias(aliases, preferredAlias)
  IN IF i = 0 THEN Null
     ELSE AliasFormUnder(aliases[i], absolutePath, originalImportPath)

\* the relative form: lines 266-287
RelativeForm(targetPath, fromFile, originalImportPath) ==
  LET rel == relative(dirname(fromFile), targetPath)
      stripped == IF extname(originalImportPath) = "" /\ extname(rel) # ""
                       /\ extname(rel) \in ExtensionsToRemove
                  THEN DropExt(rel) ELSE rel
  IN IF StartsWithDot(stripped) \/ StartsWithSlash(stripped) THEN stripped
     ELSE IF stripped = <<>> THEN <<Cur, Empty>>
     ELSE <<Cur>> \o stripped

calculateRelativeImportPath(w, targetPath, fromFile, originalImportPath) ==
  LET preferred ==
        IF isAliasImport(w, originalImportPath, fromFile)
        THEN tryConvertToSpecificAliasPath(w, targetPath,
               getOriginalAlias(w, originalImportPath, fromFile), fromFile,
               originalImportPath)
        ELSE Null
      anyAlias ==
        IF isAliasImport(w, originalImportPath, fromFile)
        THEN tryConvertToAliasPath(w, targetPath, fromFile, originalImportPath)
        ELSE Null
  IN IF preferred # Null THEN preferred
     ELSE IF anyAlias # Null THEN anyAlias
     ELSE RelativeForm(targetPath, fromFile, originalImportPath)

\* calculateNewImportPath without its last check (lines 177-180)
calculateNewImportPathNoSameCheck(w, originalImportPath, fromFile, movedFromPath, movedToPath, newFromFile) ==
  LET absoluteImportPath == resolveImportPath(w, originalImportPath, fromFile)
      isImportingMovedFile == isPathAffectedByMove(absoluteImportPath, movedFromPath)
      newAbsoluteImportPath ==
        IF isImportingMovedFile
        THEN getNewPathAfterMove(absoluteImportPath, movedFromPath, movedToPath)
        ELSE absoluteImportPath
      effectiveFromFile == IF newFromFile # Null THEN newFromFile ELSE fromFile
  IN IF absoluteImportPath = Null THEN Null
     ELSE IF ~isImportingMovedFile /\ newFromFile = Null THEN Null
     ELSE calculateRelativeImportPath(w, newAbsoluteImportPath, effectiveFromFile,
                                      originalImportPath)

\* newFromFile is Null when the importing file is not moved
calculateNewImportPath(w, originalImportPath, fromFile, movedFromPath, movedToPath, newFromFile) ==
  LET absoluteImportPath == resolveImportPath(w, originalImportPath, fromFile)
      isImportingMovedFile == isPathAffectedByMove(absoluteImportPath, movedFromPath)
      newAbsoluteImportPath ==
        IF isImportingMovedFile
        THEN getNewPathAfterMove(absoluteImportPath, movedFromPath, movedToPath)
        ELSE absoluteImportPath
      effectiveFromFile == IF newFromFile # Null THEN newFromFile ELSE fromFile
      newImportPath == calculateRelativeImportPath(w, newAbsoluteImportPath,
                                                   effectiveFromFile, originalImportPath)
  IN IF absoluteImportPath = Null THEN Null
     ELSE IF ~isImportingMovedFile /\ newFromFile = Null THEN Null
     ELSE IF newImportPath = originalImportPath THEN Null
     ELSE newImportPath

\* ------------------------------------------------------------------------
\* The file system primitives (fs/promises), on a file system value
\* [files, dirs, configs]; each returns [w |-> file system after, err |-> "" or a code]
\* ------------------------------------------------------------------------

Ok(w) == [w |-> w, err |-> ""]
Fail(w, code) == [w |-> w, err |-> code]

Under(p, dir) == IsPrefix(dir, p) /\ Len(p) > Len(dir)
AllPaths(w) == DOMAIN w.files \cup w.dirs
Children(w, dir) == {p \in AllPaths(w) : p # <<>> /\ dirname(p) = dir}

RECURSIVE SetToSeq(_)
SetToSeq(S) ==
  IF S = {} THEN <<>>
  ELSE LET x == CHOOSE y \in S : TRUE IN <<x>> \o SetToSeq(S \ {x})

Ancestors(p) == {SubSeq(p, 1, n) : n \in 0..Len(p)}

\* mkdir(dir, {recursive: true})
mkdirRecursive(w, dir) ==
  IF \E a \in Ancestors(dir) : a \in DOMAIN w.files THEN Fail(w, "ENOTDIR")
  ELSE Ok([w EXCEPT !.dirs = @ \cup Ancestors(dir)])

ensureDirectoryExists(w, dirPath) ==
  IF existsSync(w, dirPath) THEN Ok(w) ELSE mkdirRecursive(w, dirPath)

\* the tree at src relocated to dst; a file already at a relocated path is replaced
Relocate(w, src, dst) ==
  LET reloc(p) == getNewPathAfterMove(p, src, dst)
      movedF == {p \in DOMAIN w.files : isPathAffectedByMove(p, src)}
      movedD == {p \in w.dirs : isPathAffectedByMove(p, src)}
      newF == {reloc(p) : p \in movedF}
      keptF == (DOMAIN w.files \ movedF) \ newF
  IN [files |-> [q \in keptF \cup newF |->
                   IF q \in newF THEN w.files[CHOOSE p \in movedF : reloc(p) = q]
                   ELSE w.files[q]],
      dirs |-> (w.dirs \ movedD) \cup {reloc(p) : p \in movedD},
      configs |-> w.configs]

\* rename(2)
rename(w, src, dst) ==
  IF ~existsSync(w, src) THEN Fail(w, "ENOENT")
  ELSE IF src = dst THEN Ok(w)
  ELSE IF dirname(dst) \in DOMAIN w.files THEN Fail(w, "ENOTDIR")
  ELSE IF dirname(dst) \notin w.dirs THEN Fail(w, "ENOENT")
  ELSE IF isDirectory(w, src)
  THEN IF Under(dst, src) THEN Fail(w, "EINVAL")
       ELSE IF dst \in DOMAIN w.files THEN Fail(w, "ENOTDIR")
       ELSE IF dst \in w.dirs /\ Children(w, dst) # {} THEN Fail(w, "ENOTEMPTY")
       ELSE Ok(Relocate(w, src, dst))
  ELSE IF dst \in w.dirs THEN Fail(w, "EISDIR")
       ELSE Ok(Relocate(w, src, dst))

\* rmdir(2)
rmdir(w, dir) ==
  IF dir \notin w.dirs THEN Fail(w, "ENOENT")
  ELSE IF Children(w, dir) # {} THEN Fail(w, "ENOTEMPTY")
  ELSE Ok([w EXCEPT !.dirs = @ \ {dir}])

\* ------------------------------------------------------------------------
\* FileMover: the physical move
\* ------------------------------------------------------------------------

RECURSIVE moveDirectory(_, _, _)
RECURSIVE MergeItems(_, _, _, _)

\* the loop of mergeDirectories over readdir(sourcePath)
MergeItems(w, items, sourcePath, destinationPath) ==
  IF items = <<>> THEN Ok(w)
  ELSE LET item == Head(items)
           destItemPath == Append(destinationPath, basename(item))
           r == IF isDirectory(w, item)
                THEN moveDirectory(w, item, destItemPath)
                ELSE LET e == ensureDirectoryExists(w, dirname(destItemPath)) IN
                       IF e.err # "" THEN e ELSE rename(e.w, item, destItemPath)
       IN IF r.err # "" THEN r
          ELSE MergeItems(r.w, Tail(items), sourcePath, destinationPath)

mergeDirectories(w, sourcePath, destinationPath) ==
  LET e == ensureDirectoryExists(w, destinationPath)
      m == IF e.err # "" THEN e
           ELSE MergeItems(e.w, SetToSeq(Children(e.w, sourcePath)),
                           sourcePath, destinationPath)
      rm == rmdir(m.w, sourcePath)
  IN IF m.err # "" THEN m
     ELSE IF rm.err = "" THEN rm
     ELSE IF rm.err = "ENOTEMPTY" THEN Ok(m.w)
     ELSE rm

\* a move of a directory that does not fall back to the merge
moveDirectoryNoMerge(w, sourcePath, destinationPath) ==
  rename(w, sourcePath, destinationPath)

moveDirectory(w, sourcePath, destinationPath) ==
  LET r == rename(w, sourcePath, destinationPath) IN
    IF r.err \in {"ENOTEMPTY", "EEXIST"}
    THEN mergeDirectories(w, sourcePath, destinationPath)
    ELSE r

performMove(w, sourcePath, destinationPath) ==
  LET e == ensureDirectoryExists(w, dirname(destinationPath)) IN
    IF e.err # "" THEN e
    ELSE IF ~existsSync(e.w, sourcePath) THEN Fail(e.w, "ENOENT")
    ELSE IF isDirectory(e.w, sourcePath)
    THEN moveDirectory(e.w, sourcePath, destinationPath)
    ELSE rename(e.w, sourcePath, destinationPath)

\* ------------------------------------------------------------------------
\* FileMover: discovery, analysis and rewrite of one move
\* ------------------------------------------------------------------------

\* config.rootDir, and FileDiscovery's config.fileExtensions (.vue,.ts,.tsx,.js)
RootDir == << <<"proj">> >>
FileExtensions == {"vue", "ts", "tsx", "js"}

\* a move that takes every source as present
SourceMissingNever(w, sourcePath) == FALSE

\* move, lines 43-45: the literal source is missing
SourceMissing(w, sourcePath) == ~existsSync(w, sourcePath)

\* destinationPath.includes(".")
IncludesDot(p) == \E i \in 1..Len(p) : Len(p[i]) >= 2

\* destinationPath.endsWith("/"): the path string's last segment is empty
EndsWithSlash(p) == p # <<>> /\ p[Len(p)] = Empty

\* the path a system call sees: trailing separators name the same entry
WithoutSlash(p) == IF EndsWithSlash(p) THEN SubSeq(p, 1, Len(p) - 1) ELSE p

\* existsSync of a path string that may end with "/": with the separator the
\* entry must be a directory (stat fails with ENOTDIR on a file)
existsSyncPath(w, p) ==
  IF EndsWithSlash(p) THEN isDirectory(w, WithoutSlash(p)) ELSE existsSync(w, p)

\* move, lines 50-71: the effective destination.  The command line hands over
\* a resolved destination, which never ends with "/"; a caller of move() may
\* hand over one that does.
finalDestinationPath(w, sourcePath, destinationPath) ==
  IF existsSyncPath(w, destinationPath)
  THEN IF isDirectory(w, WithoutSlash(destinationPath))
       THEN resolve(WithoutSlash(destinationPath), <<basename(sourcePath)>>)
       ELSE destinationPath
  ELSE IF \/ EndsWithSlash(destinationPath)
          \/ /\ existsSync(w, dirname(WithoutSlash(destinationPath)))
             /\ isDirectory(w, dirname(WithoutSlash(destinationPath)))
             /\ ~IncludesDot(destinationPath)
       THEN resolve(WithoutSlash(destinationPath), <<basename(sourcePath)>>)
       ELSE destinationPath

\* FileDiscovery.findAllFiles: the files under rootDir of a configured
\* extension (dot files are not matched), with the content read from them
findAllFiles(w) ==
  LET found == {p \in DOMAIN w.files :
                  /\ IsPrefix(RootDir, p)
                  /\ extname(p) \in FileExtensions
                  /\ \A i \in 1..Len(p) : p[i][1] # ""}
  IN [p \in found |-> w.files[p]]

\* fileNeedsUpdate
fileNeedsUpdate(w, file, imports, sourcePath) ==
  \/ isPathAffectedByMove(file, sourcePath)
  \/ \E i \in 1..Len(imports) :
       LET resolvedPath == resolveImportPath(w, imports[i], file) IN
         resolvedPath # Null /\ isPathAffectedByMove(resolvedPath, sourcePath)

\* findFilesToUpdate: the flagged files, in the order of discovery
findFilesToUpdate(w, allFiles, sourcePath) ==
  LET order == SetToSeq(DOMAIN allFiles)
      needs(f) == fileNeedsUpdate(w, f, allFiles[f], sourcePath)
  IN SelectSeq(order, needs)

\* updateFileImports, lines 275-282: the importing file's own new location,
\* Null when it is not moved
NewFromFile(F, movedFrom, movedTo) ==
  IF isPathAffectedByMove(F, movedFrom)
  THEN getNewPathAfterMove(F, movedFrom, movedTo)
  ELSE Null

\* updateFileImports, lines 284-302: the changes of the imports from the i-th
\* on; an import's line is modelled by its index.  (Binding a value through
\* a one-element set evaluates it once.)
RECURSIVE Changes(_, _, _, _, _, _)
Changes(w, file, imports, i, sourcePath, destinationPath) ==
  IF i > Len(imports) THEN <<>>
  ELSE (CHOOSE c \in
          {IF newImportPath # Null /\ newImportPath # imports[i]
           THEN <<[line |-> i, from |-> imports[i], to |-> newImportPath]>>
           ELSE <<>> :
             newImportPath \in
               {calculateNewImportPath(w, imports[i], file, sourcePath, destinationPath,
                                       NewFromFile(file, sourcePath, destinationPath))}} :
          TRUE)
       \o Changes(w, file, imports, i + 1, sourcePath, destinationPath)

\* ImportParser.updateImportsInContent: each updated import's specifier is
\* replaced inside its own statement
updateImportsInContent(content, updates) ==
  [i \in 1..Len(content) |->
     IF \E k \in 1..Len(updates) : updates[k].line = i
     THEN updates[CHOOSE k \in 1..Len(updates) : updates[k].line = i].to
     ELSE content[i]]

\* the writes of a run that is a dry run too
WritesEnabledAlways(config) == TRUE

\* updateFileImports, line 313: write unless dry run
WritesEnabled(config) == ~config.dryRun

\* move, line 112, and moveGlobPattern, lines 481 and 519
MovesEnabled(config) == ~config.dryRun

\* updateFileImports: the UpdateResult and the content to persist
updateFileImports(w, file, imports, sourcePath, destinationPath) ==
  CHOOSE r \in
    {[result |-> [filePath |-> getNewPathAfterMove(file, sourcePath, destinationPath),
                  updatedImports |-> Len(changes),
                  changes |-> changes],
      content |-> updateImportsInContent(imports, changes)] :
       changes \in {Changes(w, file, imports, 1, sourcePath, destinationPath)}} :
    TRUE

\* a segment of a glob pattern against a path segment: "*" and "*.ext"
GlobMatchSeg(pat, seg) ==
  IF pat = <<"*">> THEN seg[1] # ""
  ELSE IF Len(pat) = 2 /\ pat[1] = "*"
  THEN Len(seg) >= 2 /\ seg[1] # "" /\ seg[Len(seg)] = pat[2]
  ELSE seg = pat

\* globby([globPattern], {cwd: rootDir, absolute: true, onlyFiles: false})
globby(w, globPattern) ==
  {p \in AllPaths(w) :
     /\ Len(p) = Len(globPattern)
     /\ \A i \in 1..Len(p) : GlobMatchSeg(globPattern[i], p[i])}

\* containsGlobPattern of the command line
containsGlobPattern(source) == \E i \in 1..Len(source) : source[i][1] = "*"

\* the destination taken as the item's own path
calculateGlobDestinationFlat(matchedPath, destinationPath) == destinationPath

\* calculateGlobDestination: the destination is a folder, the item keeps its name
calculateGlobDestination(matchedPath, destinationPath) ==
  Append(destinationPath, basename(matchedPath))

\* where each file of the project came from, after the tree at sourcePath
\* has been moved (w: before, w2: after)
OriginAfter(origin, w, w2, sourcePath, destinationPath) ==
  LET movedTo(q) == {p \in DOMAIN w.files :
                       /\ isPathAffectedByMove(p, sourcePath)
                       /\ getNewPathAfterMove(p, sourcePath, destinationPath) = q
                       /\ (p \notin DOMAIN w2.files \/ p = q)}
  IN [q \in DOMAIN w2.files |->
        IF movedTo(q) # {} THEN origin[CHOOSE p \in movedTo(q) : TRUE] ELSE origin[q]]

\* ------------------------------------------------------------------------
\* The projects and inputs the specifications draw from
\* ------------------------------------------------------------------------

\* at most this many source files in a drawn project
MaxFiles == 2
\* at most this many entries in a drawn compilerOptions.paths
MaxRules == 3

Proj == << <<"proj">> >>
Src == Proj \o << <<"src">> >>
ProjConfig == Append(Proj, TsConfigName)

\* compilerOptions.paths entries
RuleAt == [pattern |-> << <<"@">>, <<"*">> >>, targets |-> << <<Cur, <<"src">>, <<"*">>>> >>]
RuleTilde == [pattern |-> << <<"~">>, <<"*">> >>, targets |-> << <<Cur, <<"*">>>> >>]
RuleComponents ==
  [pattern |-> << <<"@components">>, <<"*">> >>,
   targets |-> << <<Cur, <<"src">>, <<"components">>, <<"*">>>> >>]
RuleAtLib == [pattern |-> << <<"@">>, <<"lib">>, <<"*">> >>, targets |-> << <<Cur, <<"lib">>, <<"*">>>> >>]
Rules == {RuleAt, RuleTilde, RuleComponents, RuleAtLib}

\* the config of the path resolver's tests: "@" -> /proj/src, "~" -> /proj
DefaultConfig == [paths |-> <<RuleAt, RuleTilde>>, baseUrl |-> <<Cur>>]

\* the sequences without repetition of at most n elements of S
RECURSIVE SeqsNoRep(_, _)
SeqsNoRep(S, n) ==
  IF n = 0 THEN {<<>>}
  ELSE LET shorter == SeqsNoRep(S, n - 1) IN
    shorter \cup UNION {{Append(q, x) : x \in S \ {q[i] : i \in 1..Len(q)}} :
                         q \in {r \in shorter : Len(r) = n - 1}}

\* candidate source files of a drawn project
CandFiles ==
  { Src \o << <<"main", "ts">> >>,
    Src \o << <<"a">>, <<"x", "ts">> >>,
    Src \o << <<"a">>, <<"y", "tsx">> >>,
    Src \o << <<"b">>, <<"y", "ts">> >>,
    Src \o << <<"b">>, <<"c", "vue">> >>,
    Src \o << <<"b">>, <<"a">>, <<"z", "ts">> >> }

\* destinations of a file move (another directory, or a dotted name in the
\* same directory) and of a directory move
DestDirs ==
  { Src \o << <<"a">> >>, Src \o << <<"b">> >>, Src \o << <<"c">> >>,
    Src \o << <<"b">>, <<"a">> >> }
Renamed(seg) == <<seg[1], "h">> \o Tail(seg)
DestFilesOf(from) ==
  {Append(d, basename(from)) : d \in DestDirs \cup {Src}}
    \cup {Append(dirname(from), Renamed(basename(from)))}

\* the directories a set of files needs
DirsOf(fileSet) == UNION {Ancestors(dirname(f)) : f \in fileSet}

\* the ways a developer writes an import of path p in file f
dotted(rel) == IF StartsWithDot(rel) THEN rel ELSE <<Cur>> \o rel
noExt(spec) == IF extname(spec) # "" THEN DropExt(spec) ELSE spec
SpecifiersFor(f, p) ==
  LET rel == dotted(relative(dirname(f), p))
      at == << <<"@">> >> \o relative(Src, p)
      tilde == << <<"~">> >> \o relative(Proj, p)
  IN {rel, noExt(rel), <<Empty>> \o p, tilde}
       \cup (IF IsPrefix(Src, p) THEN {at, noExt(at)} ELSE {})

\* ------------------------------------------------------------------------
\* SpecResolve: one import S of one file F through a move movedFrom ->
\* movedTo: the rewrite (calculateNewImportPath as updateFileImports calls
\* it), the physical move, and a second rewrite pass on the moved project
\* ------------------------------------------------------------------------

NoRule == [alias |-> Null, path |-> Null]
NoOut == [abs |-> Null, rule |-> NoRule, newSpec |-> Null, second |-> Null]

\* a move that succeeds and replaces no file
CleanMove(w, movedFrom, movedTo) ==
  LET r == performMove(w, movedFrom, movedTo) IN
    /\ r.err = ""
    /\ Cardinality(DOMAIN r.w.files) = Cardinality(DOMAIN w.files)

\* any project of at most MaxFiles files under the default config, any clean
\* move of one of its files or directories, any of its files, and any
\* resolving way to write an import of any of its paths that the move concerns
InitResolveAny ==
  /\ mode = "resolve"
  /\ pc = "start"
  /\ configs = (ProjConfig :> DefaultConfig)
  /\ out = NoOut
  /\ \E fileSet \in SUBSET CandFiles :
       LET w0 == [files |-> [f \in fileSet |-> <<>>], dirs |-> DirsOf(fileSet),
                  configs |-> (ProjConfig :> DefaultConfig)]
       IN
       /\ Cardinality(fileSet) \in 1..MaxFiles
       /\ dirs = w0.dirs
       /\ \E from \in fileSet \cup {d \in w0.dirs : Under(d, Src)} :
            \E to \in IF from \in fileSet THEN DestFilesOf(from) ELSE DestDirs :
              /\ to = from \/ to \notin fileSet
              /\ CleanMove(w0, from, to)
              /\ \E F \in fileSet :
                   \E P \in (fileSet \ {F}) \cup {d \in w0.dirs : IsPrefix(Src, d)} :
                   /\ isPathAffectedByMove(F, from) \/ isPathAffectedByMove(P, from)
                   /\ \E S \in SpecifiersFor(F, P) :
                        /\ resolveImportPath(w0, S, F) # Null
                        /\ files = [f \in fileSet |-> IF f = F THEN <<S>> ELSE <<>>]
                        /\ args = [F |-> F, S |-> S, from |-> from, to |-> to]

\* the project of the alias tests under every config of at most MaxRules
\* entries, in every file order
ButtonVue == Src \o << <<"components">>, <<"Button", "vue">> >>
HomeVue == Src \o << <<"pages">>, <<"Home", "vue">> >>
SharedButtonVue == Src \o << <<"shared">>, <<"Button", "vue">> >>
LibX == Proj \o << <<"lib">>, <<"x", "ts">> >>
LibY == Proj \o << <<"lib">>, <<"y", "ts">> >>
AliasSpecifiers ==
  { << <<"@components">>, <<"Button", "vue">> >>,
    << <<"@">>, <<"components">>, <<"Button", "vue">> >>,
    << <<"@">>, <<"lib">>, <<"x">> >>,
    << <<"~">>, <<"lib">>, <<"x">> >>,
    << <<"~">>, <<"src">>, <<"components">>, <<"Button", "vue">> >> }

InitResolveAlias ==
  /\ mode = "resolve"
  /\ pc = "start"
  /\ out = NoOut
  /\ dirs = DirsOf({ButtonVue, HomeVue, LibX})
  /\ \E q \in SeqsNoRep(Rules, MaxRules) :
       configs = (ProjConfig :> [paths |-> q, baseUrl |-> <<Cur>>])
  /\ \E S \in AliasSpecifiers :
       /\ files = [f \in {ButtonVue, HomeVue, LibX} |-> IF f = HomeVue THEN <<S>> ELSE <<>>]
       /\ \E mv \in {<<ButtonVue, SharedButtonVue>>, <<LibX, LibY>>} :
            args = [F |-> HomeVue, S |-> S, from |-> mv[1], to |-> mv[2]]

InitResolve == InitResolveAny \/ InitResolveAlias

\* Rewrite of the one import: updateFileImports
Rewrite1 ==
  /\ mode = "resolve" /\ pc = "start"
  /\ LET w == World
         newSpec == calculateNewImportPath(w, args.S, args.F, args.from, args.to,
                                           NewFromFile(args.F, args.from, args.to))
     IN /\ out' = [out EXCEPT
                     !.abs = resolveImportPath(w, args.S, args.F),
                     !.rule = IF isAbsolute(args.S) \/ MatchedRule(w, args.S, args.F) = 0
                              THEN NoRule
                              ELSE getAliasesForFile(w, args.F)[MatchedRule(w, args.S, args.F)],
                     !.newSpec = newSpec]
        /\ files' = IF newSpec # Null THEN [files EXCEPT ![args.F] = <<newSpec>>]
                    ELSE files
  /\ pc' = "rewritten"
  /\ UNCHANGED <<dirs, configs, mode, args>>

PhysicalMove1 ==
  /\ mode = "resolve" /\ pc = "rewritten"
  /\ LET r == performMove(World, args.from, args.to) IN
       /\ files' = r.w.files
       /\ dirs' = r.w.dirs
       /\ pc' = IF r.err = "" THEN "moved" ELSE "failed"
  /\ UNCHANGED <<configs, mode, args, out>>

\* the second pass, on the moved project
Rewrite2 ==
  /\ mode = "resolve" /\ pc = "moved"
  /\ LET F1 == getNewPathAfterMove(args.F, args.from, args.to)
         S1 == files[F1][1]
     IN out' = [out EXCEPT !.second =
                  calculateNewImportPath(World, S1, F1, args.from, args.to,
                                         NewFromFile(F1, args.from, args.to))]
  /\ pc' = "second"
  /\ UNCHANGED <<files, dirs, configs, mode, args>>

NextResolve == Rewrite1 \/ PhysicalMove1 \/ Rewrite2

SpecResolve == InitResolve /\ [][NextResolve]_vars


\* ------------------------------------------------------------------------
\* SpecFind: PathResolver.resolveImportPath of an extensionless specifier on
\* drawn file systems: src/utils.<ext>, src/utils/index.<ext>, src/utils/
\* ------------------------------------------------------------------------

SrcUtils == Src \o << <<"utils">> >>
SrcMain == Src \o << <<"main", "ts">> >>

\* the candidates of findActualFile for base path p, in the order it tries them
ExtensionCandidates(p) == [i \in 1..Len(SourceExts) |-> AddExt(p, SourceExts[i])]
IndexCandidates(p) == [i \in 1..Len(SourceExts) |-> Append(p, <<"index", SourceExts[i]>>)]

CandidateFiles ==
  {ExtensionCandidates(SrcUtils)[i] : i \in 1..Len(SourceExts)}
    \cup {IndexCandidates(SrcUtils)[i] : i \in 1..Len(SourceExts)}

\* the extensionless specifiers of src/utils written in src/main.ts
UtilsSpecifiers == { <<Cur, <<"utils">>>>, << <<"@">>, <<"utils">> >> }

InitFind ==
  /\ mode = "find"
  /\ pc = "start"
  /\ \E present \in SUBSET CandidateFiles, emptyDir \in BOOLEAN :
       /\ files = [f \in present \cup {SrcMain} |-> <<>>]
       /\ dirs = DirsOf(present \cup {SrcMain})
                   \cup (IF emptyDir THEN {SrcUtils} ELSE {})
  /\ configs = (ProjConfig :> DefaultConfig)
  /\ \E importPath \in UtilsSpecifiers :
       args = [importPath |-> importPath, fromFile |-> SrcMain]
  /\ out = [resolved |-> Null]

\* PathResolver.resolveImportPath(importPath, fromFile)
ResolveImport ==
  /\ mode = "find" /\ pc = "start"
  /\ out' = [resolved |-> resolveImportPath(World, args.importPath, args.fromFile)]
  /\ pc' = "done"
  /\ UNCHANGED <<files, dirs, configs, mode, args>>

NextFind == ResolveImport

SpecFind == InitFind /\ [][NextFind]_vars
\* ------------------------------------------------------------------------
\* Spec: the move command.  One run of FileMover.move on a drawn project:
\* a literal source (Discover, Analyze, RewriteFile per flagged file,
\* PhysicalMove) or a glob pattern (GlobExpand, then ItemAnalyze,
\* RewriteFile per flagged file and ItemMove for each matched item)
\* ------------------------------------------------------------------------

\* at most this many imports in a drawn file of the alias project
MaxImports == 3

NoError == [message |-> "", path |-> Null]

\* the run's bookkeeping before its first step
NoMoveOut(fileSet) ==
  [ source |-> Null,          \* the item being moved
    finalDest |-> Null,       \* and its effective destination
    snapshot |-> <<>>,        \* allFiles: path -> imports, as enumerated for the item
    queue |-> <<>>,           \* filesToUpdate not yet rewritten
    results |-> <<>>,         \* the item's UpdateResults
    error |-> NoError,        \* the error move() threw
    items |-> <<>>,           \* matchedFiles not yet processed
    failed |-> <<>>,          \* the items whose error the fan-out caught
    movedItems |-> 0,
    totalUpdates |-> 0,
    totalFiles |-> 0,
    log |-> <<>>,             \* the file-system calls made, in order
    edits |-> <<>>,           \* the specifier edits made: file of origin, import, item
    origin |-> [f \in fileSet |-> f] ]

\* the projects with the given files, each file's imports drawn from contents[f]
RECURSIVE ProjectsOver(_, _)
ProjectsOver(fileSet, contents) ==
  IF fileSet = {} THEN {<<>>}
  ELSE LET f == CHOOSE x \in fileSet : TRUE IN
    {(f :> c) @@ g : c \in contents[f], g \in ProjectsOver(fileSet \ {f}, contents)}

\* the permutations of a set, as sequences
Perms(S) == {q \in SeqsNoRep(S, Cardinality(S)) : Len(q) = Cardinality(S)}

InitMoveWith(project, extraDirs, config, source, dest, dryRun) ==
  /\ mode = "move"
  /\ pc = "start"
  /\ files = project
  /\ dirs = DirsOf(DOMAIN project) \cup extraDirs
  /\ configs = (ProjConfig :> config)
  /\ args = [source |-> source, dest |-> dest,
             useGlobPattern |-> containsGlobPattern(source), dryRun |-> dryRun,
             files0 |-> project, dirs0 |-> DirsOf(DOMAIN project) \cup extraDirs]
  /\ out = NoMoveOut(DOMAIN project)

\* the alias project: Home.vue imports Button.vue through "@", next to other
\* imports; Button.vue or its directory is moved
AboutVue == Src \o << <<"pages">>, <<"About", "vue">> >>
AtButton == << <<"@">>, <<"components">>, <<"Button", "vue">> >>
BareVue == << <<"vue">> >>
HomeImports ==
  { AtButton, BareVue, <<Cur, <<"About", "vue">>>>,
    <<Up, <<"components">>, <<"Button", "vue">>>> }
AliasContents(f) ==
  IF f = HomeVue THEN SeqsNoRep(HomeImports, MaxImports)
  ELSE IF f = AboutVue THEN {<<>>, << <<Cur, <<"Home", "vue">>>> >>}
  ELSE {<<>>}

InitMoveAlias ==
  \E project \in ProjectsOver({ButtonVue, HomeVue, AboutVue},
                             [f \in {ButtonVue, HomeVue, AboutVue} |-> AliasContents(f)]) :
    \E config \in {DefaultConfig, [paths |-> <<RuleTilde, RuleAt>>, baseUrl |-> <<Cur>>]} :
      \E source \in {ButtonVue, dirname(ButtonVue)} :
        \E dest \in {SharedButtonVue, dirname(SharedButtonVue), dirname(HomeVue)} :
          \E dryRun \in BOOLEAN :
            InitMoveWith(project, {}, config, source, dest, dryRun)

\* the directory project: at most MaxFiles of the candidate files, each with
\* at most one import of another; a file, a directory or a missing path is moved
MissingPath == Src \o << <<"gone", "ts">> >>
ImportStyles(f, p) ==
  LET rel == dotted(relative(dirname(f), p))
      at == << <<"@">> >> \o relative(Src, p)
  IN {rel, noExt(rel), at}

InitMoveDirs ==
  \E fileSet \in SUBSET CandFiles :
    /\ Cardinality(fileSet) \in 1..MaxFiles
    /\ LET Contents(f) ==
             {<<>>} \cup {<<s>> : s \in UNION {ImportStyles(f, p) : p \in fileSet \ {f}}}
       IN \E project \in ProjectsOver(fileSet, [f \in fileSet |-> Contents(f)]) :
            \E source \in fileSet \cup {d \in DirsOf(fileSet) : Under(d, Src)} \cup {MissingPath} :
              \E dest \in (IF source \in fileSet THEN DestFilesOf(source) ELSE {}) \cup DestDirs :
                \E dryRun \in BOOLEAN :
                  InitMoveWith(project, {}, DefaultConfig, source, dest, dryRun)

\* the glob project: the pattern src/services/*.ts is moved into a
\* destination; the services import each other and main.ts imports them
Services == Src \o << <<"services">> >>
S1 == Services \o << <<"s1", "ts">> >>
S2 == Services \o << <<"s2", "ts">> >>
Main == Src \o << <<"main", "ts">> >>
Core == Src \o << <<"core">> >>
ServicesPattern == Services \o << <<"*", "ts">> >>
GlobStyles == {"rel", "noext", "at"}
GlobImport(f, p, style) ==
  LET rel == dotted(relative(dirname(f), p))
      at == << <<"@">> >> \o relative(Src, p)
  IN CASE style = "rel" -> rel
       [] style = "noext" -> noExt(rel)
       [] OTHER -> at

InitMoveGlob ==
  \E matched \in SUBSET {S1, S2} :
    LET fileSet == matched \cup {Main}
        Contents(f) ==
          {<<>>} \cup
          {[i \in 1..Len(q) |-> GlobImport(f, q[i], style)] :
             q \in SeqsNoRep(matched \ {f}, 2) \ {<<>>}, style \in GlobStyles}
    IN \E project \in ProjectsOver(fileSet, [f \in fileSet |-> Contents(f)]) :
         \E dest \in {Core, Src, Main} :
           \E dryRun \in BOOLEAN :
             InitMoveWith(project, {Services}, DefaultConfig, ServicesPattern, dest, dryRun)

InitMove == InitMoveAlias \/ InitMoveDirs \/ InitMoveGlob

\* the run's configuration
Config == [dryRun |-> args.dryRun]

\* move, lines 43-71: the source must exist; the effective destination
Discover ==
  /\ mode = "move" /\ pc = "start" /\ ~args.useGlobPattern
  /\ IF SourceMissing(World, args.source)
     THEN /\ pc' = "error"
          /\ out' = [out EXCEPT !.error = [message |-> "Source path does not exist: ",
                                            path |-> args.source]]
     ELSE /\ pc' = "analyze"
          /\ out' = [out EXCEPT
                       !.source = args.source,
                       !.finalDest = finalDestinationPath(World, args.source, args.dest),
                       !.log = Append(@, [op |-> "stat", path |-> args.source])]
  /\ UNCHANGED <<files, dirs, configs, mode, args>>

\* move, lines 85-95: enumerate, parse, flag
Analyze ==
  /\ mode = "move" /\ pc = "analyze"
  /\ \E allFiles \in {findAllFiles(World)} :
       out' = [out EXCEPT
                 !.snapshot = allFiles,
                 !.queue = findFilesToUpdate(World, allFiles, out.source),
                 !.results = <<>>,
                 !.log = Append(@, [op |-> "findAllFiles", path |-> RootDir])]
  /\ pc' = "rewrite"
  /\ UNCHANGED <<files, dirs, configs, mode, args>>

\* a rewrite that writes to the path the file will have after the move
WriteTargetAfterMove(file, result) == result.filePath

\* updateFileImports, lines 314-316: the write goes to the file's current
\* location (file.absolutePath), not to result.filePath
WriteTarget(file, result) == file

\* updateImportReferences: updateFileImports on the next flagged file
RewriteFile ==
  /\ mode = "move" /\ pc = "rewrite" /\ out.queue # <<>>
  /\ \E file \in {Head(out.queue)} :
     \E r \in {updateFileImports(World, file, out.snapshot[file], out.source, out.finalDest)} :
     LET edited == r.result.updatedImports > 0
         writes == edited /\ WritesEnabled(Config)
         target == WriteTarget(file, r.result)
     IN /\ files' = IF writes THEN (target :> r.content) @@ files ELSE files
        /\ out' = [out EXCEPT
                     !.queue = Tail(@),
                     !.results = IF edited THEN Append(@, r.result) ELSE @,
                     !.log = IF writes
                             THEN Append(@, [op |-> "writeFile", path |-> target])
                             ELSE @,
                     !.edits = @ \o [k \in 1..r.result.updatedImports |->
                                       [file |-> out.origin[file],
                                        import |-> r.result.changes[k].line,
                                        item |-> out.source]]]
  /\ UNCHANGED <<dirs, configs, mode, pc, args>>

\* move, lines 112-122: the physical move, unless dry run, and the report
PhysicalMove ==
  /\ mode = "move" /\ pc = "rewrite" /\ out.queue = <<>> /\ ~args.useGlobPattern
  /\ \E moves \in {MovesEnabled(Config)} :
     \E r \in {IF moves THEN performMove(World, out.source, out.finalDest) ELSE Ok(World)} :
        /\ files' = r.w.files
        /\ dirs' = r.w.dirs
        /\ pc' = IF r.err = "" THEN "done" ELSE "error"
        /\ out' = [out EXCEPT
                     !.error = IF r.err = "" THEN NoError
                               ELSE [message |-> r.err, path |-> out.source],
                     !.log = IF moves
                             THEN Append(@, [op |-> "performMove", path |-> out.source])
                             ELSE @,
                     !.origin = OriginAfter(@, World, r.w, out.source, out.finalDest),
                     !.movedItems = IF r.err = "" THEN 1 ELSE 0,
                     !.totalFiles = Len(out.results)]
  /\ UNCHANGED <<configs, mode, args>>

\* moveGlobPattern, lines 454-483: the matches, in the order globby lists
\* them, and the destination directory
GlobExpand ==
  /\ mode = "move" /\ pc = "start" /\ args.useGlobPattern
  /\ \E matchedFiles \in {globby(World, args.source)} :
     \E moves \in {MovesEnabled(Config) /\ matchedFiles # {}} :
     \E e \in {IF moves THEN ensureDirectoryExists(World, args.dest) ELSE Ok(World)} :
        /\ files' = e.w.files
        /\ dirs' = e.w.dirs
        /\ pc' = IF matchedFiles = {} THEN "done"
                 ELSE IF e.err # "" THEN "error" ELSE "item"
        /\ \E order \in Perms(matchedFiles) :
             out' = [out EXCEPT
                       !.items = order,
                       !.error = IF e.err = "" THEN NoError
                                 ELSE [message |-> e.err, path |-> args.dest],
                       !.log = <<[op |-> "globby", path |-> args.source]>> \o
                               (IF moves /\ ~existsSync(World, args.dest)
                                THEN <<[op |-> "mkdir", path |-> args.dest]>>
                                ELSE <<>>)]
  /\ UNCHANGED <<configs, mode, args>>

\* a fan-out that enumerates the project once, before its first item
ItemSnapshotHoisted(w, previous) == IF previous = <<>> THEN findAllFiles(w) ELSE previous

\* moveGlobPattern, lines 500-502: every item enumerates and reads the
\* project anew, inside the loop
ItemSnapshot(w, previous) == findAllFiles(w)

\* moveGlobPattern, lines 493-508: the next item's own destination, a fresh
\* enumeration, and the files it flags
ItemAnalyze ==
  /\ mode = "move" /\ pc = "item" /\ out.items # <<>>
  /\ \E matchedPath \in {Head(out.items)} :
     \E allFiles \in {ItemSnapshot(World, out.snapshot)} :
        out' = [out EXCEPT
                  !.source = matchedPath,
                  !.finalDest = calculateGlobDestination(matchedPath, args.dest),
                  !.snapshot = allFiles,
                  !.queue = findFilesToUpdate(World, allFiles, matchedPath),
                  !.results = <<>>,
                  !.log = Append(@, [op |-> "findAllFiles", path |-> RootDir])]
  /\ pc' = "rewrite"
  /\ UNCHANGED <<files, dirs, configs, mode, args>>

RECURSIVE SumUpdates(_)
SumUpdates(results) ==
  IF results = <<>> THEN 0
  ELSE Head(results).updatedImports + SumUpdates(Tail(results))

\* a fan-out whose loop body has no try/catch
ItemErrorCaughtNever(err) == FALSE

\* moveGlobPattern, lines 491 and 546-553: the loop body's try/catch takes
\* every error of the item
ItemErrorCaught(err) == TRUE

\* moveGlobPattern, lines 515-553: the item's physical move, unless dry run;
\* an error of the item is caught and the fan-out goes on
ItemMove ==
  /\ mode = "move" /\ pc = "rewrite" /\ out.queue = <<>> /\ args.useGlobPattern
  /\ \E moves \in {MovesEnabled(Config)} :
     \E gone \in {~existsSync(World, out.source)} :
     \E r \in {IF gone THEN Fail(World, "ENOENT")
              ELSE IF moves THEN performMove(World, out.source, out.finalDest)
              ELSE Ok(World)} :
        /\ files' = r.w.files
        /\ dirs' = r.w.dirs
        /\ out' = [out EXCEPT
                     !.items = Tail(@),
                     !.failed = IF r.err = "" THEN @ ELSE Append(@, out.source),
                     !.movedItems = IF r.err = "" THEN @ + 1 ELSE @,
                     !.totalUpdates = IF r.err = "" THEN @ + SumUpdates(out.results) ELSE @,
                     !.totalFiles = IF r.err = "" THEN @ + Len(out.results) ELSE @,
                     !.log = IF moves /\ ~gone
                             THEN Append(@, [op |-> "performMove", path |-> out.source])
                             ELSE @,
                     !.error = IF r.err = "" \/ ItemErrorCaught(r.err) THEN @
                               ELSE [message |-> r.err, path |-> out.source],
                     !.origin = OriginAfter(@, World, r.w, out.source, out.finalDest)]
        /\ pc' = IF r.err = "" \/ ItemErrorCaught(r.err) THEN "item" ELSE "error"
  /\ UNCHANGED <<configs, mode, args>>

\* moveGlobPattern, lines 556-568: the final report
GlobReport ==
  /\ mode = "move" /\ pc = "item" /\ out.items = <<>>
  /\ pc' = "done"
  /\ UNCHANGED <<files, dirs, configs, mode, args, out>>

Next ==
  \/ Discover \/ Analyze \/ RewriteFile \/ PhysicalMove
  \/ GlobExpand \/ ItemAnalyze \/ ItemMove \/ GlobReport

Spec == InitMove /\ [][Next]_vars


\* ------------------------------------------------------------------------
\* SpecDotted: the move command on the project of the testing guide's
\* "Move a service file": src/services/auth.service.ts, imported by
\* src/composables/useAuth.ts and src/main.ts
\* ------------------------------------------------------------------------

AuthService == Services \o << <<"auth", "service", "ts">> >>
UseAuth == Src \o << <<"composables">>, <<"useAuth", "ts">> >>
CoreAuthService == Core \o << <<"auth", "service", "ts">> >>

\* the ways the two importers write the import: extensionless (relative or
\* through "@"), or with the extension
AuthImports(f) ==
  LET rel == dotted(relative(dirname(f), AuthService))
  IN {DropExt(rel), rel, << <<"@">>, <<"services">>, <<"auth", "service">> >>}

InitMoveDotted ==
  \E project \in ProjectsOver({AuthService, UseAuth, Main},
                             [f \in {AuthService, UseAuth, Main} |->
                                IF f = AuthService THEN {<<>>}
                                ELSE {<<>>} \cup {<<s>> : s \in AuthImports(f)}]) :
    \E source \in {AuthService, ServicesPattern} :
      \E dest \in (IF source = AuthService THEN {CoreAuthService} ELSE {}) \cup {Core} :
        \E dryRun \in BOOLEAN :
          InitMoveWith(project, {}, DefaultConfig, source, dest, dryRun)

SpecDotted == InitMoveDotted /\ [][Next]_vars

\* ------------------------------------------------------------------------
\* SpecCollide: the move command on projects in which a file already lies
\* where an item is moved to, or beside the source under a longer name
\* ------------------------------------------------------------------------

AX == Src \o << <<"a">>, <<"x", "ts">> >>
BX == Src \o << <<"b">>, <<"x", "ts">> >>
BAX == Src \o << <<"b">>, <<"a">>, <<"x", "ts">> >>
\* a directory whose path has the path of src/a as a string prefix
ABX == Src \o << <<"ab">>, <<"x", "ts">> >>
SrcA == Src \o << <<"a">> >>
SrcB == Src \o << <<"b">> >>
\* src/*/x.ts
AnyX == Src \o << <<"*">>, <<"x", "ts">> >>

\* the runs: the files beside src/a/x.ts and src/main.ts, what is moved, where
CollidingMoves ==
  { [others |-> {BX}, source |-> AX, dest |-> SrcB],
    [others |-> {BX}, source |-> AX, dest |-> BX],
    [others |-> {BAX}, source |-> SrcA, dest |-> SrcB],
    [others |-> {BX}, source |-> AnyX, dest |-> Core],
    [others |-> {}, source |-> AX, dest |-> SrcB],
    [others |-> {ABX}, source |-> SrcA, dest |-> Core],
    [others |-> {}, source |-> AnyX, dest |-> Core] }

InitMoveCollide ==
  \E run \in CollidingMoves :
    \E mainImports \in {<<>>} \cup {<<s>> : s \in ImportStyles(Main, AX)} :
      \E dryRun \in BOOLEAN :
        InitMoveWith([f \in {AX, Main} \cup run.others |->
                        IF f = Main THEN mainImports
                        ELSE IF f = AX THEN <<BareVue>> ELSE <<>>],
                     {SrcB}, DefaultConfig, run.source, run.dest, dryRun)

SpecCollide == InitMoveCollide /\ [][Next]_vars

\* ------------------------------------------------------------------------
\* SpecDest: the effective destination of a literal-source move (move, lines
\* 50-71) on drawn file systems, sources and destination strings
\* ------------------------------------------------------------------------

SrcX == Src \o << <<"x", "ts">> >>
SrcY == Src \o << <<"y", "ts">> >>
SrcLib == Src \o << <<"lib">> >>
\* a directory whose name holds a dot (src/v1.2)
SrcDotted == Src \o << <<"v1", "2">> >>

\* the destination strings of the runs: existing and missing, with and without
\* a trailing "/", with and without an extension, under a plain, a dotted and
\* a missing parent
DestStrings ==
  { SrcLib, SrcLib \o <<Empty>>,
    SrcY, SrcY \o <<Empty>>,
    Src \o << <<"new">> >>, Src \o << <<"new">>, Empty >>,
    Src \o << <<"new", "ts">> >>,
    SrcDotted, SrcDotted \o << <<"new">> >>, SrcDotted \o << <<"new", "ts">> >>,
    Src \o << <<"gone">>, <<"new">> >>, Src \o << <<"gone">>, <<"new">>, Empty >> }

InitDest ==
  /\ mode = "dest"
  /\ pc = "start"
  /\ \E hasLib \in BOOLEAN, hasDotted \in BOOLEAN, hasY \in BOOLEAN :
       /\ files = [f \in {SrcX} \cup (IF hasY THEN {SrcY} ELSE {}) |-> <<>>]
       /\ dirs = {Proj, Src} \cup (IF hasLib THEN {SrcLib} ELSE {})
                             \cup (IF hasDotted THEN {SrcDotted} ELSE {})
  /\ configs = <<>>
  /\ \E source \in {SrcX} \cup (dirs \ {Proj, Src}), dest \in DestStrings :
       args = [source |-> source, dest |-> dest]
  /\ out = [finalDest |-> Null]

\* move, lines 50-71, for a source that exists
EffectiveDestination ==
  /\ mode = "dest" /\ pc = "start"
  /\ out' = [finalDest |-> finalDestinationPath(World, args.source, args.dest)]
  /\ pc' = "done"
  /\ UNCHANGED <<files, dirs, configs, mode, args>>

NextDest == EffectiveDestination

SpecDest == InitDest /\ [][NextDest]_vars
\* ------------------------------------------------------------------------
\* TsConfigResolver.parseConfig with extends: the chain of configs is
\* followed one resolveExtends call per step, then merged back child over
\* parent
\* ------------------------------------------------------------------------

\* a config file without "extends"
NoExtends == Null

NodeModules == <<"node_modules">>

\* extendsValue.endsWith(".json") of a resolved path
EndsWithJson(p) ==
  p # <<>> /\ Len(p[Len(p)]) >= 2 /\ p[Len(p)][Len(p[Len(p)])] = "json"

\* resolveConfigPath, lines 345-361: the walk up through node_modules
RECURSIVE NodeModulesFrom(_, _, _)
NodeModulesFrom(w, extendsValue, currentDir) ==
  IF existsSync(w, currentDir \o <<NodeModules>> \o extendsValue)
  THEN currentDir \o <<NodeModules>> \o extendsValue
  ELSE IF currentDir = <<>> THEN Null
  ELSE NodeModulesFrom(w, extendsValue, dirname(currentDir))

resolveConfigPath(w, extendsValue, fromDir) ==
  IF StartsWithDot(extendsValue)
  THEN LET resolvedPath == resolve(fromDir, extendsValue)
           pathWithJson == IF EndsWithJson(resolvedPath) THEN resolvedPath
                           ELSE AddExt(resolvedPath, "json")
       IN IF existsSync(w, pathWithJson) THEN pathWithJson
          ELSE IF existsSync(w, resolvedPath) THEN resolvedPath
          ELSE Null
  ELSE NodeModulesFrom(w, extendsValue, fromDir)

\* a resolver that never sees a config as visited
InVisitedNever(visitedConfigs, extendsPath) == FALSE

\* resolveExtends, line 294: visitedConfigs.has(extendsPath)
InVisited(visitedConfigs, extendsPath) ==
  \E i \in 1..Len(visitedConfigs) : visitedConfigs[i] = extendsPath

\* { ...parent[key], ...child[key] } of the compiler options
SpreadOptions(parent, child) ==
  [ hasCompilerOptions |-> TRUE,
    hasPaths |-> parent.hasPaths \/ child.hasPaths,
    paths |-> IF child.hasPaths THEN child.paths ELSE parent.paths,
    hasBaseUrl |-> parent.hasBaseUrl \/ child.hasBaseUrl,
    baseUrl |-> IF child.hasBaseUrl THEN child.baseUrl ELSE parent.baseUrl,
    hasStrict |-> parent.hasStrict \/ child.hasStrict,
    strict |-> IF child.hasStrict THEN child.strict ELSE parent.strict ]

\* a merge that joins the two "paths" mappings entry by entry
mergeConfigsEntrywise(parent, child) ==
  IF child.hasCompilerOptions /\ parent.hasCompilerOptions
  THEN [SpreadOptions(parent, child) EXCEPT
          !.paths = (IF parent.hasPaths THEN parent.paths ELSE <<>>)
                      \o (IF child.hasPaths THEN child.paths ELSE <<>>)]
  ELSE IF child.hasCompilerOptions THEN child
  ELSE parent

\* mergeConfigs: the child's keys over the parent's.  When both hold an
\* object "compilerOptions" the two are spread, child last, and "paths" is
\* the child's when it has one; otherwise the child's "compilerOptions"
\* stands for the whole key, and the parent's is kept when the child has none
mergeConfigs(parent, child) ==
  IF child.hasCompilerOptions /\ parent.hasCompilerOptions
  THEN [SpreadOptions(parent, child) EXCEPT
          !.paths = IF child.hasPaths THEN child.paths ELSE @]
  ELSE IF child.hasCompilerOptions THEN child
  ELSE parent

\* what JSON.parse yields of a config file, without its "extends"
Raw(c) == [hasCompilerOptions |-> c.hasCompilerOptions,
           hasPaths |-> c.hasPaths, paths |-> c.paths,
           hasBaseUrl |-> c.hasBaseUrl, baseUrl |-> c.baseUrl,
           hasStrict |-> c.hasStrict, strict |-> c.strict]

\* no more reads than this in one parseConfig
MaxReads == 6

CfgA == Proj \o <<TsConfigName>>
CfgB == Proj \o << <<"base", "json">> >>
CfgC == Proj \o << <<"cfg">>, <<"c", "json">> >>
CfgP == Proj \o << NodeModules, <<"pkg">>, TsConfigName >>
CfgDir == Proj \o << <<"cfg">> >>

\* the "extends" values a drawn config may carry
ExtendsOptions(c) ==
  CASE c = CfgA -> { NoExtends,
                     <<Cur, <<"base", "json">>>>, <<Cur, <<"base">>>>,
                     <<Cur, <<"cfg">>, <<"c", "json">>>>,
                     <<Cur, TsConfigName>>,
                     <<Cur, <<"missing">>>>,
                     << <<"pkg">>, TsConfigName >>,
                     <<Cur, <<"cfg">>>> }
    [] c = CfgB -> { NoExtends, <<Cur, <<"tsconfig">>>>, <<Cur, <<"cfg">>, <<"c">>>>,
                     <<Cur, <<"base", "json">>>> }
    [] c = CfgC -> { NoExtends, <<Up, TsConfigName>>, <<Up, <<"base">>>>, <<Cur, <<"c">>>> }
    [] OTHER -> { NoExtends, <<Up, Up, TsConfigName>> }

ConfigFile(ext, hasPaths, paths) ==
  [extends |-> ext, hasCompilerOptions |-> TRUE, hasPaths |-> hasPaths, paths |-> paths,
   hasBaseUrl |-> FALSE, baseUrl |-> <<Cur>>, hasStrict |-> FALSE, strict |-> FALSE,
   malformed |-> FALSE]

NoConfigOut ==
  [ visited |-> <<>>,        \* visitedConfigs, in insertion order
    reads |-> <<>>,          \* the readFileSync calls, in order
    stack |-> <<>>,          \* the configs whose resolveExtends is still running
    merged |-> Raw(ConfigFile(NoExtends, FALSE, <<>>)),
    error |-> [message |-> "", chain |-> <<>>],
    aliases |-> <<>> ]

InitConfig ==
  /\ mode = "config"
  /\ pc = "start"
  /\ files = <<>>
  /\ dirs = Ancestors(CfgDir) \cup Ancestors(dirname(CfgP))
  /\ out = NoConfigOut
  /\ \E a \in ExtendsOptions(CfgA), b \in ExtendsOptions(CfgB),
        c \in ExtendsOptions(CfgC), p \in ExtendsOptions(CfgP), aPaths \in BOOLEAN :
       configs = (CfgA :> ConfigFile(a, aPaths, <<RuleAt>>)) @@
                 (CfgB :> ConfigFile(b, TRUE, <<RuleTilde, RuleAt>>)) @@
                 (CfgC :> ConfigFile(c, FALSE, <<>>)) @@
                 (CfgP :> ConfigFile(p, TRUE, <<RuleComponents>>))
  /\ \E root \in {CfgA, CfgB, CfgC} : args = [configPath |-> root]

\* parseConfig, lines 138-167: read the config, start its visited set
ParseConfig ==
  /\ mode = "config" /\ pc = "start"
  /\ LET c == configs[args.configPath] IN
       /\ out' = [out EXCEPT
                    !.reads = <<args.configPath>>,
                    !.visited = <<args.configPath>>,
                    !.stack = IF c.extends # NoExtends THEN <<args.configPath>> ELSE <<>>,
                    !.merged = Raw(c)]
       /\ pc' = IF c.extends # NoExtends THEN "extends" ELSE "unwind"
  /\ UNCHANGED <<files, dirs, configs, mode, args>>

\* resolveExtends, lines 279-316, for the config on top of the stack
ResolveExtends ==
  /\ mode = "config" /\ pc = "extends"
  /\ Len(out.reads) < MaxReads
  /\ LET configPath == out.stack[Len(out.stack)]
         extendsPath == resolveConfigPath(World, configs[configPath].extends,
                                          dirname(configPath))
     IN IF extendsPath = Null
        THEN /\ out' = [out EXCEPT !.merged = Raw(configs[configPath]),
                                   !.stack = SubSeq(@, 1, Len(@) - 1)]
             /\ pc' = "unwind"
        ELSE IF InVisited(out.visited, extendsPath)
        THEN /\ out' = [out EXCEPT !.error =
                          [message |-> "Circular extends detected: ",
                           chain |-> Append(out.visited, extendsPath)]]
             /\ pc' = "error"
        ELSE IF extendsPath \notin DOMAIN configs
        THEN /\ out' = [out EXCEPT !.visited = Append(@, extendsPath),
                                   !.reads = Append(@, extendsPath),
                                   !.error = [message |-> "EISDIR", chain |-> <<>>]]
             /\ pc' = "error"
        ELSE /\ out' = [out EXCEPT
                          !.visited = Append(@, extendsPath),
                          !.reads = Append(@, extendsPath),
                          !.stack = IF configs[extendsPath].extends # NoExtends
                                    THEN Append(@, extendsPath) ELSE @,
                          !.merged = Raw(configs[extendsPath])]
             /\ pc' = IF configs[extendsPath].extends # NoExtends
                      THEN "extends" ELSE "unwind"
  /\ UNCHANGED <<files, dirs, configs, mode, args>>

\* resolveExtends, line 319: a pending child merged over its resolved parent
MergeUp ==
  /\ mode = "config" /\ pc = "unwind" /\ out.stack # <<>>
  /\ out' = [out EXCEPT
               !.merged = mergeConfigs(@, Raw(configs[out.stack[Len(out.stack)]])),
               !.stack = SubSeq(@, 1, Len(@) - 1)]
  /\ UNCHANGED <<files, dirs, configs, mode, pc, args>>

\* parseConfig, lines 169-203: the aliases of the final config
FinishParse ==
  /\ mode = "config" /\ pc = "unwind" /\ out.stack = <<>>
  /\ out' = [out EXCEPT !.aliases =
               convertPathsToAliases(IF out.merged.hasPaths THEN out.merged.paths ELSE <<>>,
                                     IF out.merged.hasBaseUrl THEN out.merged.baseUrl
                                     ELSE <<Cur>>,
                                     dirname(args.configPath))]
  /\ pc' = "done"
  /\ UNCHANGED <<files, dirs, configs, mode, args>>

NextConfig == ParseConfig \/ ResolveExtends \/ MergeUp \/ FinishParse

SpecConfig == InitConfig /\ [][NextConfig]_vars

\* parseConfig is synchronous code: it runs on until it returns or throws
SpecConfigFair == SpecConfig /\ WF_vars(NextConfig)


\* ------------------------------------------------------------------------
\* TsConfigResolver.mergeConfigs on its own: a resolved parent and a child
\* ------------------------------------------------------------------------

NoOptions ==
  [hasCompilerOptions |-> FALSE, hasPaths |-> FALSE, paths |-> <<>>,
   hasBaseUrl |-> FALSE, baseUrl |-> <<Cur>>, hasStrict |-> FALSE, strict |-> FALSE]

\* the compilerOptions objects drawn: each key present or not
OptionsOver(pathsValues, baseUrlValue, strictValue) ==
  {NoOptions} \cup
  {[hasCompilerOptions |-> TRUE,
    hasPaths |-> hp, paths |-> IF hp THEN ps ELSE <<>>,
    hasBaseUrl |-> hb, baseUrl |-> IF hb THEN baseUrlValue ELSE <<Cur>>,
    hasStrict |-> hs, strict |-> IF hs THEN strictValue ELSE FALSE] :
     ps \in pathsValues, hp \in BOOLEAN, hb \in BOOLEAN, hs \in BOOLEAN}

ParentOptions == OptionsOver({<<RuleComponents>>, <<RuleTilde, RuleAt>>}, <<Cur, <<"base">>>>, FALSE)
ChildOptions == OptionsOver({<<>>, <<RuleAt>>}, <<Cur, <<"src">>>>, TRUE)

InitMerge ==
  /\ mode = "merge"
  /\ pc = "start"
  /\ files = <<>> /\ dirs = {} /\ configs = <<>>
  /\ \E parent \in ParentOptions, child \in ChildOptions :
       args = [parent |-> parent, child |-> child]
  /\ out = NoOptions

\* resolveExtends, line 319: this.mergeConfigs(resolvedParentConfig, config)
MergeConfigs ==
  /\ mode = "merge" /\ pc = "start"
  /\ out' = mergeConfigs(args.parent, args.child)
  /\ pc' = "done"
  /\ UNCHANGED <<files, dirs, configs, mode, args>>

NextMerge == MergeConfigs

SpecMerge == InitMerge /\ [][NextMerge]_vars

\* ------------------------------------------------------------------------
\* TsConfigResolver.findConfigForFile and clearCache: one resolver, its two
\* caches, and a project whose config files may change on disk
\* ------------------------------------------------------------------------

\* null where a TsConfigInfo is expected
NoInfo == [ok |-> FALSE, configPath |-> Null, paths |-> <<>>, aliases |-> <<>>, oid |-> 0]

Failed == [ok |-> FALSE, merged |-> NoOptions]

\* resolveExtends as one call: the merged config, or the error thrown
RECURSIVE resolveExtends(_, _, _, _)
resolveExtends(w, config, configPath, visitedConfigs) ==
  LET extendsPath == resolveConfigPath(w, config.extends, dirname(configPath)) IN
    IF extendsPath = Null THEN [ok |-> TRUE, merged |-> Raw(config)]
    ELSE IF InVisited(visitedConfigs, extendsPath) THEN Failed
    ELSE IF extendsPath \notin DOMAIN w.configs THEN Failed
    ELSE IF w.configs[extendsPath].malformed THEN Failed
    ELSE LET parentConfig == w.configs[extendsPath]
             resolvedParentConfig ==
               IF parentConfig.extends # NoExtends
               THEN resolveExtends(w, parentConfig, extendsPath,
                                   Append(visitedConfigs, extendsPath))
               ELSE [ok |-> TRUE, merged |-> Raw(parentConfig)]
         IN IF ~resolvedParentConfig.ok THEN Failed
            ELSE [ok |-> TRUE,
                  merged |-> mergeConfigs(resolvedParentConfig.merged, Raw(config))]

\* the "references" key of a config object: the paths of its entries, [] when
\* the key is absent
References(config) == IF "references" \in DOMAIN config THEN config.references ELSE <<>>

\* the "references" key of the config merged along its extends chain:
\* mergeConfigs starts from {...parent} and overrides every key the child has
RECURSIVE MergedReferences(_, _, _)
MergedReferences(w, config, configPath) ==
  IF "references" \in DOMAIN config THEN config.references
  ELSE IF config.extends = NoExtends THEN <<>>
  ELSE LET extendsPath == resolveConfigPath(w, config.extends, dirname(configPath)) IN
         IF extendsPath = Null \/ extendsPath \notin DOMAIN w.configs THEN <<>>
         ELSE MergedReferences(w, w.configs[extendsPath], extendsPath)

\* a harvest that takes every alias of every referenced config
SeenAliasNever(allAliases, alias) == FALSE

\* collectAliasesFromReferences, line 253: seenAliases.has(alias.alias)
SeenAlias(allAliases, alias) ==
  \E k \in 1..Len(allAliases) : allAliases[k].alias = alias

\* collectAliasesFromReferences, lines 252-257: the aliases of one referenced
\* config pushed onto allAliases, the first occurrence of a token wins
RECURSIVE PushUnseen(_, _)
PushUnseen(allAliases, refAliases) ==
  IF refAliases = <<>> THEN allAliases
  ELSE PushUnseen(IF SeenAlias(allAliases, Head(refAliases).alias) THEN allAliases
                  ELSE Append(allAliases, Head(refAliases)),
                  Tail(refAliases))

\* collectAliasesFromReferences, lines 216-263: the loop over the references;
\* a reference that does not resolve is skipped, and so is one whose read or
\* parse throws (the try/catch)
RECURSIVE CollectFrom(_, _, _, _)
CollectFrom(w, references, baseConfigPath, allAliases) ==
  IF references = <<>> THEN allAliases
  ELSE LET resolvedRefPath ==
             resolveConfigPath(w, Head(references), dirname(baseConfigPath))
           rest == Tail(references)
       IN IF resolvedRefPath = Null
          THEN CollectFrom(w, rest, baseConfigPath, allAliases)
          ELSE IF resolvedRefPath \notin DOMAIN w.configs
          THEN CollectFrom(w, rest, baseConfigPath, allAliases)
          ELSE IF w.configs[resolvedRefPath].malformed
          THEN CollectFrom(w, rest, baseConfigPath, allAliases)
          ELSE LET refConfig == Raw(w.configs[resolvedRefPath])
                   refBaseUrl == IF refConfig.hasCompilerOptions /\ refConfig.hasBaseUrl
                                 THEN refConfig.baseUrl ELSE <<Cur>>
                   refPaths == IF refConfig.hasCompilerOptions /\ refConfig.hasPaths
                               THEN refConfig.paths ELSE <<>>
               IN CollectFrom(w, rest, baseConfigPath,
                    IF Len(refPaths) > 0
                    THEN PushUnseen(allAliases,
                           convertPathsToAliases(refPaths, refBaseUrl,
                                                 dirname(resolvedRefPath)))
                    ELSE allAliases)

collectAliasesFromReferences(w, references, baseConfigPath) ==
  SortAliases(CollectFrom(w, references, baseConfigPath, <<>>))

\* parseConfig as one call: the TsConfigInfo (ok) or the error thrown (~ok)
parseConfig(w, configPath, oid) ==
  IF configPath \notin DOMAIN w.configs THEN NoInfo
  ELSE IF w.configs[configPath].malformed THEN NoInfo
  ELSE LET config == w.configs[configPath]
           finalConfig == IF config.extends # NoExtends
                          THEN resolveExtends(w, config, configPath, <<configPath>>)
                          ELSE [ok |-> TRUE, merged |-> Raw(config)]
           compilerOptions == finalConfig.merged
           paths == IF compilerOptions.hasCompilerOptions /\ compilerOptions.hasPaths
                    THEN compilerOptions.paths ELSE <<>>
           baseUrl == IF compilerOptions.hasCompilerOptions /\ compilerOptions.hasBaseUrl
                      THEN compilerOptions.baseUrl ELSE <<Cur>>
           ownAliases == convertPathsToAliases(paths, baseUrl, dirname(configPath))
           references == MergedReferences(w, config, configPath)
       IN IF ~finalConfig.ok THEN NoInfo
          ELSE [ok |-> TRUE, configPath |-> configPath, paths |-> paths,
                aliases |-> IF Len(references) > 0 /\ Len(ownAliases) = 0
                            THEN collectAliasesFromReferences(w, references, configPath)
                            ELSE ownAliases,
                oid |-> oid]

\* an upward walk that does not stop at a repository boundary
RECURSIVE WalkUpThroughGit(_, _)
WalkUpThroughGit(w, dir) ==
  IF existsSync(w, Append(dir, TsConfigName)) THEN Append(dir, TsConfigName)
  ELSE IF existsSync(w, Append(dir, JsConfigName)) THEN Append(dir, JsConfigName)
  ELSE IF dir = <<>> THEN Null
  ELSE WalkUpThroughGit(w, dirname(dir))

walkUpIgnoringGit(w, file) == WalkUpThroughGit(w, dirname(file))

\* findConfigForFile, line 58: this.walkUpToFindConfig(normalizedFilePath)
FindNearest(w, file) == walkUpToFindConfig(w, file)

\* a lookup that parses whatever the config cache holds
ConfigCachedNever(configCache, configPath) == FALSE

\* findConfigForFile, line 66: this.configCache.has(configPath)
ConfigCached(configCache, configPath) == configPath \in DOMAIN configCache

\* a lookup without the try/catch around parseConfig
ParseErrorCaughtNever(info) == FALSE

\* findConfigForFile, lines 67-77: the catch takes every error of parseConfig
ParseErrorCaught(info) == TRUE

\* the project: /proj/pkg/src inside /proj/pkg inside /proj
Pkg == Proj \o << <<"pkg">> >>
PkgSrc == Pkg \o << <<"src">> >>
FileA == PkgSrc \o << <<"a", "ts">> >>
FileB == PkgSrc \o << <<"b", "ts">> >>
FileC == Pkg \o << <<"c", "ts">> >>
LookupFiles == {FileA, FileB, FileC}
BaseJson == Proj \o << <<"base", "json">> >>

MaxClears == 1
MaxEdits == 1

GoodConfig(paths) == [ConfigFile(NoExtends, TRUE, paths) EXCEPT !.malformed = FALSE]
ExtendingConfig(ext) == [ConfigFile(ext, FALSE, <<>>) EXCEPT !.malformed = FALSE]
MalformedConfig == [ConfigFile(NoExtends, FALSE, <<>>) EXCEPT !.malformed = TRUE]

\* what a directory of the project may hold: config files and directories
SrcLayouts ==
  {[configs |-> <<>>, dirs |-> {}],
   [configs |-> (Append(PkgSrc, JsConfigName) :> GoodConfig(<<RuleTilde>>)), dirs |-> {}],
   [configs |-> (Append(PkgSrc, TsConfigName) :> GoodConfig(<<RuleAt>>)), dirs |-> {}],
   [configs |-> (Append(PkgSrc, TsConfigName) :> GoodConfig(<<RuleAt>>))
                  @@ (Append(PkgSrc, JsConfigName) :> GoodConfig(<<RuleTilde>>)), dirs |-> {}],
   [configs |-> (Append(PkgSrc, TsConfigName) :> MalformedConfig), dirs |-> {}]}
PkgLayouts ==
  {[configs |-> c, dirs |-> g] :
     c \in {<<>>,
            (Append(Pkg, TsConfigName) :> GoodConfig(<<RuleComponents>>)),
            (Append(Pkg, TsConfigName) :> ExtendingConfig(<<Up, <<"base", "json">>>>))
              @@ (BaseJson :> GoodConfig(<<RuleAtLib>>)),
            (Append(Pkg, TsConfigName) :> ExtendingConfig(<<Up, <<"base", "json">>>>))
              @@ (BaseJson :> MalformedConfig),
            (Append(Pkg, TsConfigName) :> ExtendingConfig(<<Cur, TsConfigName>>))},
     g \in {{}, {Append(Pkg, GitName)}}}
ProjLayouts ==
  {[configs |-> <<>>, dirs |-> {}],
   [configs |-> (Append(Proj, TsConfigName) :> GoodConfig(<<RuleAt, RuleTilde>>)), dirs |-> {}],
   [configs |-> <<>>, dirs |-> {Append(Proj, TsConfigName)}]}

\* the contents a config file on disk may be replaced by
EditedContents == {GoodConfig(<<RuleTilde, RuleAtLib>>), MalformedConfig}

NoLookup == [file |-> Null, found |-> Null, parsed |-> FALSE]

InitLookup ==
  /\ mode = "lookup"
  /\ pc = "idle"
  /\ files = [f \in LookupFiles |-> <<>>]
  /\ \E s \in SrcLayouts, p \in PkgLayouts, r \in ProjLayouts :
       /\ configs = s.configs @@ p.configs @@ r.configs
       /\ dirs = Ancestors(PkgSrc) \cup s.dirs \cup p.dirs \cup r.dirs
  /\ args = [verbose |-> FALSE]
  /\ out = [ configCache |-> <<>>,        \* configPath -> TsConfigInfo | null
             fileToConfigCache |-> <<>>,  \* file -> configPath | null
             result |-> NoInfo,           \* what the last lookup returned
             last |-> NoLookup,           \* the last lookup: its file, the path found
             parses |-> <<>>,             \* the parseConfig calls since the last clearCache
             returned |-> <<>>,           \* file -> what its first lookup since then returned
             nextId |-> 1,                \* the identity of the next object created
             clears |-> 0,
             edits |-> 0 ]

\* findConfigForFile(filePath)
FindConfigForFile ==
  /\ mode = "lookup" /\ pc = "idle"
  /\ \E filePath \in LookupFiles :
       IF filePath \in DOMAIN out.fileToConfigCache
       THEN \E configPath \in {out.fileToConfigCache[filePath]} :
              \E result \in {IF configPath = Null THEN NoInfo
                             ELSE IF configPath \in DOMAIN out.configCache
                             THEN out.configCache[configPath] ELSE NoInfo} :
                /\ out' = [out EXCEPT
                             !.result = result,
                             !.last = [file |-> filePath, found |-> configPath, parsed |-> FALSE]]
                /\ pc' = "idle"
       ELSE \E configPath \in {FindNearest(World, filePath)} :
              IF configPath = Null \/ ConfigCached(out.configCache, configPath)
              THEN \E result \in {IF configPath = Null THEN NoInfo
                                  ELSE out.configCache[configPath]} :
                     /\ out' = [out EXCEPT
                                  !.fileToConfigCache = (filePath :> configPath) @@ @,
                                  !.result = result,
                                  !.returned = (filePath :> result) @@ @,
                                  !.last = [file |-> filePath, found |-> configPath,
                                            parsed |-> FALSE]]
                     /\ pc' = "idle"
              ELSE \E info \in {parseConfig(World, configPath, out.nextId)} :
                     /\ out' = [out EXCEPT
                                  !.fileToConfigCache = (filePath :> configPath) @@ @,
                                  !.configCache =
                                     IF info.ok \/ ParseErrorCaught(info)
                                     THEN (configPath :> info) @@ @ ELSE @,
                                  !.parses = Append(@, configPath),
                                  !.nextId = IF info.ok THEN @ + 1 ELSE @,
                                  !.result = info,
                                  !.returned = (filePath :> info) @@ @,
                                  !.last = [file |-> filePath, found |-> configPath,
                                            parsed |-> TRUE]]
                     /\ pc' = IF info.ok \/ ParseErrorCaught(info) THEN "idle" ELSE "threw"
  /\ UNCHANGED <<files, dirs, configs, mode, args>>

\* clearCache()
ClearCache ==
  /\ mode = "lookup" /\ pc = "idle"
  /\ out.clears < MaxClears
  /\ out' = [out EXCEPT !.configCache = <<>>, !.fileToConfigCache = <<>>,
                        !.parses = <<>>, !.returned = <<>>, !.last = NoLookup,
                        !.clears = @ + 1]
  /\ UNCHANGED <<files, dirs, configs, mode, pc, args>>

\* a config file is rewritten on disk between two calls
EditConfig ==
  /\ mode = "lookup" /\ pc = "idle"
  /\ out.edits < MaxEdits
  /\ \E configPath \in DOMAIN configs \ {BaseJson}, content \in EditedContents :
       /\ configs[configPath] # content
       /\ configs' = [configs EXCEPT ![configPath] = content]
  /\ out' = [out EXCEPT !.last = NoLookup, !.edits = @ + 1]
  /\ UNCHANGED <<files, dirs, mode, pc, args>>

NextLookup == FindConfigForFile \/ ClearCache \/ EditConfig

SpecLookup == InitLookup /\ [][NextLookup]_vars

\* ------------------------------------------------------------------------
\* SpecRefs: parseConfig on a solution-style config that lists project
\* references
\* ------------------------------------------------------------------------

MaxRefs == 3

AppJson == Append(Proj, <<"tsconfig", "app", "json">>)
NodeJson == Append(Proj, <<"tsconfig", "node", "json">>)
BadJson == Append(Proj, <<"tsconfig", "bad", "json">>)
SolutionBase == Append(Proj, <<"tsconfig", "solution", "json">>)

\* the reference paths a config lists: two configs, an unparsable one and a
\* missing one
RefApp == <<Cur, <<"tsconfig", "app", "json">>>>
RefNode == <<Cur, <<"tsconfig", "node", "json">>>>
RefBad == <<Cur, <<"tsconfig", "bad", "json">>>>
RefMissing == <<Cur, <<"tsconfig", "missing", "json">>>>
ReferenceLists == SeqsNoRep({RefApp, RefNode, RefBad, RefMissing}, MaxRefs)

RuleAtApp == [pattern |-> << <<"@">>, <<"*">> >>, targets |-> << <<Cur, <<"app">>, <<"*">>>> >>]
RuleAtNode == [pattern |-> << <<"@">>, <<"*">> >>, targets |-> << <<Cur, <<"node">>, <<"*">>>> >>]
RuleNoTarget == [pattern |-> << <<"#">>, <<"*">> >>, targets |-> <<>>]

\* the compilerOptions.paths of the primary config and of the referenced ones
PrimaryPaths == {<<>>, <<RuleNoTarget>>, <<RuleAt>>}
AppPaths == {<<RuleAtApp, RuleComponents>>, <<RuleTilde>>}
NodePaths == {<<>>, <<RuleAtNode, RuleAtLib>>}

WithReferences(config, references) ==
  [k \in DOMAIN config \cup {"references"} |->
     IF k = "references" THEN references ELSE config[k]]

InitRefs ==
  /\ mode = "refs"
  /\ pc = "start"
  /\ files = <<>> /\ dirs = {<<>>, Proj}
  /\ \E primary \in PrimaryPaths, references \in ReferenceLists,
        app \in AppPaths, node \in NodePaths, inherited \in BOOLEAN :
       configs =
         (ProjConfig :>
            IF inherited THEN ConfigFile(<<Cur, <<"tsconfig", "solution", "json">>>>,
                                         primary # <<>>, primary)
            ELSE WithReferences(ConfigFile(NoExtends, primary # <<>>, primary), references))
         @@ (SolutionBase :> WithReferences(ConfigFile(NoExtends, FALSE, <<>>), references))
         @@ (AppJson :> ConfigFile(NoExtends, TRUE, app))
         @@ (NodeJson :> ConfigFile(NoExtends, node # <<>>, node))
         @@ (BadJson :> MalformedConfig)
  /\ args = [configPath |-> ProjConfig]
  /\ out = NoInfo

\* TsConfigResolver.parseConfig(configPath)
ParseWithReferences ==
  /\ mode = "refs" /\ pc = "start"
  /\ out' = parseConfig(World, args.configPath, 1)
  /\ pc' = "done"
  /\ UNCHANGED <<files, dirs, configs, mode, args>>

NextRefs == ParseWithReferences

SpecRefs == InitRefs /\ [][NextRefs]_vars
\* ------------------------------------------------------------------------
\* ImportParser.  A file's content is the sequence of its tokens: a token is
\* a run of characters that the scanner's patterns take or leave whole (a
\* word, a quote, a newline, a blank, a specifier's text, a tag's head).  A
\* position in the content is a character offset, as in the code; the width
\* of a token is the number of its characters.
\* ------------------------------------------------------------------------

NewLine == "\n"
IsSpace(t) == t \in {"\n", " "}
\* the quote characters of the patterns (the projects drawn use no backtick)
IsQuote(t) == t \in {"'", "\""}
\* the tokens \w+ takes
IsWord(t) == t \in {"import", "export", "type", "from", "as", "require", "const", "a", "b", "c", "f", "p", "r", "s"}

\* String.prototype.length of a run of tokens
RECURSIVE WidthTo(_, _)
WidthTo(toks, n) == IF n <= 0 THEN 0 ELSE Len(toks[n]) + WidthTo(toks, n - 1)
Width(toks) == WidthTo(toks, Len(toks))

\* the character offset at which the token of index i begins
OffsetOf(c, i) == WidthTo(c, i - 1)

\* the index of the token that begins at character offset off (a position
\* inside a token belongs to the token that follows)
RECURSIVE TokenFrom(_, _, _)
TokenFrom(c, i, off) ==
  IF i > Len(c) \/ off <= 0 THEN i ELSE TokenFrom(c, i + 1, off - Len(c[i]))
TokenAt(c, off) == TokenFrom(c, 1, off)

\* String.prototype.substring(start, end)
substring(c, start, end) == SubSeq(c, TokenAt(c, start), TokenAt(c, end) - 1)

\* (before.match(/\n/g) || []).length + 1
LineAt(c, i) == Cardinality({k \in 1..(i - 1) : c[k] = NewLine}) + 1

\* the position after the longest run of \s from position p
RECURSIVE SkipSpaces(_, _)
SkipSpaces(c, p) == IF p <= Len(c) /\ IsSpace(c[p]) THEN SkipSpaces(c, p + 1) ELSE p

\* the positions after \s* and after \s+ from p (a run can be given back)
SpacesStar(c, p) == p..SkipSpaces(c, p)
SpacesPlus(c, p) == (p + 1)..SkipSpaces(c, p)

\* the first position from p on whose token is one of S, 0 when there is none
FirstFrom(c, p, S) ==
  IF \E q \in p..Len(c) : c[q] \in S
  THEN CHOOSE q \in p..Len(c) : c[q] \in S /\ \A r \in p..(q - 1) : c[r] \notin S
  ELSE 0

TokenIs(c, p, t) == p >= 1 /\ p <= Len(c) /\ c[p] = t

\* ^ and $ under the m flag
AtLineStart(c, p) == p = 1 \/ c[p - 1] = NewLine
AtLineEnd(c, p) == p = Len(c) + 1 \/ c[p] = NewLine

\* parseStaticImports, the import clause of importRegex:
\*   (?:\s*,\s*)?
OptComma(c, p) ==
  {p} \cup UNION {SpacesStar(c, r + 1) : r \in {x \in SpacesStar(c, p) : TokenIs(c, x, ",")}}
\*   a list in braces that ends on the line it begins on
BraceListOneLine(c, p) ==
  IF TokenIs(c, p, "{") /\ TokenIs(c, FirstFrom(c, p + 1, {"}", NewLine}), "}")
  THEN {FirstFrom(c, p + 1, {"}"}) + 1} ELSE {}
\*   \{[^}]*\}
BraceList(c, p) ==
  IF TokenIs(c, p, "{") /\ FirstFrom(c, p + 1, {"}"}) # 0
  THEN {FirstFrom(c, p + 1, {"}"}) + 1} ELSE {}
\*   \w+
WordAt(c, p) == IF p <= Len(c) /\ IsWord(c[p]) THEN {p + 1} ELSE {}
\*   the four alternatives
ClauseEnds(c, p) ==
  LET star == IF TokenIs(c, p, "*")
              THEN UNION {UNION {WordAt(c, y) : y \in SpacesPlus(c, x + 1)} :
                            x \in {z \in SpacesPlus(c, p + 1) : TokenIs(c, z, "as")}}
              ELSE {}
      word == UNION {OptComma(c, x) : x \in WordAt(c, p)}
      braces == UNION {OptComma(c, x) : x \in BraceList(c, p)}
      both == UNION {UNION {BraceList(c, z) :
                              z \in UNION {SpacesStar(c, y + 1) :
                                             y \in {r \in SpacesStar(c, x) : TokenIs(c, r, ",")}}} :
                       x \in WordAt(c, p)}
  IN star \cup word \cup braces \cup both

\* parseStaticImports, importRegex from "import" (at position p) to "from":
\* the positions of a "from" that ends import\s+(?:type\s+)?(clause)?\s+from
FromEnds(c, p) ==
  LET afterImport == SpacesPlus(c, p + 1)
      afterType == afterImport \cup
                   UNION {SpacesPlus(c, x + 1) : x \in {y \in afterImport : TokenIs(c, y, "type")}}
      afterClause == afterType \cup UNION {ClauseEnds(c, x) : x \in afterType}
      beforeFrom == UNION {SpacesPlus(c, x) : x \in afterClause}
  IN {x \in beforeFrom : TokenIs(c, x, "from")}

\* parseStaticImports, the tail of importRegex after the closing quote:
\* [\s]*;?$ takes the longest run of blanks after which ;?$ matches
RECURSIVE StatementEnd(_, _, _)
StatementEnd(c, lo, q) ==
  IF q < lo THEN 0
  ELSE IF q = SkipSpaces(c, lo) /\ TokenIs(c, q, ";") /\ AtLineEnd(c, q + 1) THEN q + 1
  ELSE IF AtLineEnd(c, q) THEN q
  ELSE StatementEnd(c, lo, q - 1)

NoMatch == [ok |-> FALSE, first |-> 0, last |-> 0, pathFirst |-> 0, pathLast |-> 0]

\* the first end of "import ... from" for an import keyword at position p,
\* 0 when there is none
FirstFromEnd(c, p) ==
  CHOOSE r \in {IF froms = {} THEN 0 ELSE CHOOSE x \in froms : \A y \in froms : x <= y :
                  froms \in {FromEnds(c, p)}} : TRUE

\* the rest of importRegex after from: \s+[\s]*(q)([^q]+)(q)[\s]*;?$
StaticTail(c, p, from) ==
  CHOOSE m \in
    {IF open = from + 1 \/ open > Len(c) \/ ~IsQuote(c[open]) THEN NoMatch
     ELSE CHOOSE m2 \in
       {IF close <= open + 1 THEN NoMatch
        ELSE CHOOSE m3 \in
          {IF e = 0 THEN NoMatch
           ELSE [ok |-> TRUE, first |-> p, last |-> e - 1,
                 pathFirst |-> open + 1, pathLast |-> close - 1] :
             e \in {StatementEnd(c, close + 1, SkipSpaces(c, close + 1))}} : TRUE :
          close \in {FirstFrom(c, open + 1, {"'", "\""})}} : TRUE :
       open \in {SkipSpaces(c, from + 1)}} : TRUE

\* one attempt of importRegex at position p: the tokens first..last of the
\* match and pathFirst..pathLast of its capture
StaticMatchAt(c, p) ==
  IF ~AtLineStart(c, p) \/ ~TokenIs(c, SkipSpaces(c, p), "import") THEN NoMatch
  ELSE CHOOSE m \in
    {IF from = 0 THEN NoMatch ELSE StaticTail(c, p, from) :
       from \in {FirstFromEnd(c, SkipSpaces(c, p))}} : TRUE

\* dynamicImportRegex and requireRegex: keyword\s*\(\s*(q)([^q]+)\1\s*\)
CallMatchAt(c, p, keyword) ==
  IF ~TokenIs(c, p, keyword) THEN NoMatch
  ELSE LET paren == SkipSpaces(c, p + 1)
           open == SkipSpaces(c, paren + 1)
           close == FirstFrom(c, open + 1, {"'", "\""})
           last == SkipSpaces(c, close + 1)
       IN IF /\ TokenIs(c, paren, "(")
             /\ open <= Len(c) /\ IsQuote(c[open])
             /\ close > open + 1 /\ c[close] = c[open]
             /\ TokenIs(c, last, ")")
          THEN [ok |-> TRUE, first |-> p, last |-> last,
                pathFirst |-> open + 1, pathLast |-> close - 1]
          ELSE NoMatch

\* parseVueTemplate's dynamicImportRegex: the two quotes need not agree
TemplateCallMatchAt(c, p) ==
  IF ~TokenIs(c, p, "import") THEN NoMatch
  ELSE LET paren == SkipSpaces(c, p + 1)
           open == SkipSpaces(c, paren + 1)
           close == FirstFrom(c, open + 1, {"'", "\""})
           last == SkipSpaces(c, close + 1)
       IN IF /\ TokenIs(c, paren, "(")
             /\ open <= Len(c) /\ IsQuote(c[open])
             /\ close > open + 1
             /\ TokenIs(c, last, ")")
          THEN [ok |-> TRUE, first |-> p, last |-> last,
                pathFirst |-> open + 1, pathLast |-> close - 1]
          ELSE NoMatch

\* the ImportInfo of a match
ImportInfo(c, m, type) ==
  [original |-> SubSeq(c, m.first, m.last),
   path |-> SubSeq(c, m.pathFirst, m.pathLast),
   start |-> OffsetOf(c, m.first),
   end |-> OffsetOf(c, m.last + 1),
   type |-> type,
   line |-> LineAt(c, m.first)]

\* one attempt of the pattern of a kind at position p
MatchAt(c, p, kind) ==
  CASE kind = "import-from" -> StaticMatchAt(c, p)
    [] kind = "import()" -> CallMatchAt(c, p, "import")
    [] kind = "require()" -> CallMatchAt(c, p, "require")
    [] OTHER -> TemplateCallMatchAt(c, p)

\* the first position from p on at which the pattern of a kind can begin (a
\* line start for importRegex, the keyword for the calls), 0 when there is none
NextAttempt(c, p, kind) ==
  IF kind = "import-from"
  THEN (IF p > Len(c) THEN 0
        ELSE IF AtLineStart(c, p) THEN p
        ELSE IF FirstFrom(c, p, {NewLine}) \in {0, Len(c)} THEN 0
        ELSE FirstFrom(c, p, {NewLine}) + 1)
  ELSE FirstFrom(c, p, {IF kind = "require()" THEN "require" ELSE "import"})

\* while ((match = regex.exec(content)) !== null): the matches from position
\* p on, each search resuming where the last match ended
RECURSIVE ExecAll(_, _, _, _)
ExecAll(c, p, kind, type) ==
  CHOOSE r \in
    {IF q = 0 THEN <<>>
     ELSE CHOOSE r2 \in
       {IF m.ok THEN <<ImportInfo(c, m, type)>> \o ExecAll(c, m.last + 1, kind, type)
        ELSE ExecAll(c, q + 1, kind, type) : m \in {MatchAt(c, q, kind)}} : TRUE :
       q \in {NextAttempt(c, p, kind)}} : TRUE

parseStaticImports(c) == ExecAll(c, 1, "import-from", "static")
parseDynamicImports(c) == ExecAll(c, 1, "import()", "dynamic")
parseRequireStatements(c) == ExecAll(c, 1, "require()", "static")

parseJsFile(c) == parseStaticImports(c) \o parseDynamicImports(c) \o parseRequireStatements(c)

\* String.prototype.indexOf of a run of tokens in another, as a token index
\* (0 when the run does not occur)
IndexOfRun(hay, needle) ==
  LET at == {k \in 1..(Len(hay) - Len(needle) + 1) :
               SubSeq(hay, k, k + Len(needle) - 1) = needle}
  IN IF at = {} THEN 0 ELSE CHOOSE k \in at : \A j \in at : k <= j

\* one attempt at position p of <tag(?:\s+[^>]*)?>([\s\S]*?)</tag>: the tokens
\* first..last of the match and bodyFirst..bodyLast of its capture
NoBlock == [ok |-> FALSE, first |-> 0, last |-> 0, bodyFirst |-> 0, bodyLast |-> 0]
BlockMatchAt(c, p, openTag, closeTag) ==
  IF ~TokenIs(c, p, openTag) THEN NoBlock
  ELSE LET gt == IF TokenIs(c, p + 1, ">") THEN p + 1
                 ELSE IF p + 1 <= Len(c) /\ IsSpace(c[p + 1]) THEN FirstFrom(c, p + 1, {">"})
                 ELSE 0
           close == IF gt = 0 THEN 0 ELSE FirstFrom(c, gt + 1, {closeTag})
       IN IF gt = 0 \/ close = 0 THEN NoBlock
          ELSE [ok |-> TRUE, first |-> p, last |-> close,
                bodyFirst |-> gt + 1, bodyLast |-> close - 1]

\* extractVueScriptBlocks, lines 65-82: the block of one match.  The offset
\* is match.index + fullMatch.indexOf(scriptContent), the start line counts
\* the newlines before the match and in the match before the content.
ScriptBlock(c, m) ==
  LET fullMatch == SubSeq(c, m.first, m.last)
      scriptContent == SubSeq(c, m.bodyFirst, m.bodyLast)
      at == IndexOfRun(fullMatch, scriptContent)
      head == SubSeq(fullMatch, 1, at - 1)
  IN [content |-> scriptContent,
      offset |-> OffsetOf(c, m.first) + Width(head),
      startLine |-> LineAt(c, m.first)
                      + Cardinality({k \in 1..Len(head) : head[k] = NewLine})]

\* extractVueScriptBlocks: the blocks from position p on
RECURSIVE ScriptBlocksFrom(_, _)
ScriptBlocksFrom(c, p) ==
  CHOOSE r \in
    {IF q = 0 THEN <<>>
     ELSE CHOOSE r2 \in
       {IF m.ok THEN <<ScriptBlock(c, m)>> \o ScriptBlocksFrom(c, m.last + 1)
        ELSE ScriptBlocksFrom(c, q + 1) :
          m \in {BlockMatchAt(c, q, "<script", "</script>")}} : TRUE :
       q \in {FirstFrom(c, p, {"<script"})}} : TRUE

extractVueScriptBlocks(c) == ScriptBlocksFrom(c, 1)

\* the offsets of a block's record without the block's offset
AdjustToBlockNoOffset(imp, block) ==
  [imp EXCEPT !.line = imp.line + block.startLine - 1]

\* parseVueFile, lines 32-39: a block's record in whole-file coordinates
AdjustToBlock(imp, block) ==
  [imp EXCEPT !.start = imp.start + block.offset,
              !.end = imp.end + block.offset,
              !.line = imp.line + block.startLine - 1]

\* parseVueTemplate: the import() calls of the first template region
parseVueTemplate(c) ==
  LET starts == {p \in 1..Len(c) : BlockMatchAt(c, p, "<template", "</template>").ok} IN
    IF starts = {} THEN <<>>
    ELSE LET m == BlockMatchAt(c, CHOOSE p \in starts : \A q \in starts : p <= q,
                               "<template", "</template>")
             whole == SubSeq(c, m.first, m.last)
             templateContent == SubSeq(c, m.bodyFirst, m.bodyLast)
             templateOffset == OffsetOf(c, m.first)
                                 + Width(SubSeq(whole, 1, IndexOfRun(whole, templateContent) - 1))
             found == ExecAll(templateContent, 1, "template import()", "dynamic")
         IN [k \in 1..Len(found) |->
               [found[k] EXCEPT
                  !.start = templateOffset + found[k].start,
                  !.end = templateOffset + found[k].end,
                  !.line = LineAt(c, TokenAt(c, templateOffset + found[k].start))]]

RECURSIVE Flatten(_)
Flatten(seqs) == IF seqs = <<>> THEN <<>> ELSE Head(seqs) \o Flatten(Tail(seqs))

\* parseVueFile
parseVueFile(c) ==
  LET scriptBlocks == extractVueScriptBlocks(c)
      ofBlock(block) ==
        LET blockImports == parseJsFile(block.content) IN
          [k \in 1..Len(blockImports) |-> AdjustToBlock(blockImports[k], block)]
  IN Flatten([b \in 1..Len(scriptBlocks) |-> ofBlock(scriptBlocks[b])])
       \o parseVueTemplate(c)

\* parseImports: dispatch on the file's extension
parseImports(file) ==
  CASE file.extension = ".vue" -> parseVueFile(file.content)
    [] file.extension \in {".ts", ".tsx", ".js", ".jsx"} -> parseJsFile(file.content)
    [] OTHER -> <<>>

\* the updates in the order they are given
SortUpdatesKeepOrder(updates) == updates

\* updateImportsInContent, lines 240-242: [...updates].sort((a, b) =>
\* b.from.start - a.from.start), a stable sort
RECURSIVE SortUpdates(_)
SortUpdates(updates) ==
  IF updates = <<>> THEN <<>>
  ELSE LET rest == SortUpdates(Tail(updates))
           u == Head(updates)
           k == Cardinality({i \in 1..Len(rest) : rest[i].from.start > u.from.start})
       IN SubSeq(rest, 1, k) \o <<u>> \o SubSeq(rest, k + 1, Len(rest))

\* String.prototype.replace with a replacement string (GetSubstitution): in
\* the replacement, "$$" stands for "$", "$1" for the first capture (the
\* quote), "$&" for the matched text, and any other text for itself
RECURSIVE GetSubstitution(_, _, _)
GetSubstitution(replacement, capture, matched) ==
  IF replacement = <<>> THEN <<>>
  ELSE IF Len(replacement) >= 2 /\ replacement[1] = "$" /\ replacement[2] \in {"$", "1", "&"}
  THEN (CASE replacement[2] = "$" -> <<"$">>
          [] replacement[2] = "1" -> <<capture>>
          [] OTHER -> matched)
         \o GetSubstitution(SubSeq(replacement, 3, Len(replacement)), capture, matched)
  ELSE <<replacement[1]>> \o GetSubstitution(Tail(replacement), capture, matched)

\* the replacement taken as plain text between the quotes
LiteralSubstitution(replacement, capture, matched) ==
  <<capture>> \o SubSeq(replacement, 3, Len(replacement) - 2) \o <<capture>>

\* updateImportsInContent, lines 249-252: originalImport.replace of the first
\* quote + path + same quote by the replacement string "$1" + to + "$1"
ReplaceSpecifier(originalImport, path, to) ==
  LET at == {k \in 1..(Len(originalImport) - Len(path) - 1) :
               /\ IsQuote(originalImport[k])
               /\ SubSeq(originalImport, k + 1, k + Len(path)) = path
               /\ originalImport[k + Len(path) + 1] = originalImport[k]}
  IN IF at = {} THEN originalImport
     ELSE CHOOSE r \in
       {SubSeq(originalImport, 1, k - 1)
          \o GetSubstitution(<<"$", "1">> \o to \o <<"$", "1">>, originalImport[k],
                             SubSeq(originalImport, k, k + Len(path) + 1))
          \o SubSeq(originalImport, k + Len(path) + 2, Len(originalImport)) :
            k \in {CHOOSE x \in at : \A y \in at : x <= y}} : TRUE

\* updateImportsInContent, lines 246-258: the updates applied one after the other
RECURSIVE ApplyUpdates(_, _)
ApplyUpdates(updatedContent, sortedUpdates) ==
  IF sortedUpdates = <<>> THEN updatedContent
  ELSE LET from == Head(sortedUpdates).from
           to == Head(sortedUpdates).to
           newImport == ReplaceSpecifier(from.original, from.path, to)
       IN ApplyUpdates(
            SubSeq(updatedContent, 1, TokenAt(updatedContent, from.start) - 1)
              \o newImport
              \o SubSeq(updatedContent, TokenAt(updatedContent, from.end), Len(updatedContent)),
            Tail(sortedUpdates))

\* ImportParser.updateImportsInContent on the text of a file
updateImportsInText(content, updates) == ApplyUpdates(content, SortUpdates(updates))

\* ------------------------------------------------------------------------
\* The texts parsed: lines of source joined by newlines.
\* ------------------------------------------------------------------------

EmptyLine == <<>>
PlainImport == <<"import", " ", "a", " ", "from", " ", "'", "./x", "'">>
IndentedImport ==
  <<" ", " ", "import", " ", "{", " ", "b", " ", "}", " ", "from", " ", "\"", "@/y", "\"", ";">>
MultiLineImport ==
  <<"import", " ", "{", "\n", " ", " ", "a", ",", "\n", " ", " ", "b", "\n", "}",
    " ", "from", " ", "'", "@/m", "'", ";">>
StringLiteralLine ==
  <<"const", " ", "s", " ", "=", " ", "\"", "import", " ", "f", " ", "from", " ",
    "'", "fake", "'", "\"", ";">>
DynamicImportLine == <<"const", " ", "p", " ", "=", " ", "import", "(", "'", "./d", "'", ")", ";">>
RequireLine == <<"const", " ", "r", " ", "=", " ", "require", "(", "\"", "./r", "\"", ")">>
CommentedImport ==
  <<"import", " ", "c", " ", "from", " ", "'", "./c", "'", ";", " ", "//", " ", "c">>

JsLines ==
  {EmptyLine, PlainImport, IndentedImport, MultiLineImport, StringLiteralLine,
   DynamicImportLine, RequireLine, CommentedImport}
VueLines == {EmptyLine, PlainImport, MultiLineImport, DynamicImportLine}

MaxLines == 3
MaxUpdates == 3

RECURSIVE JoinLines(_)
JoinLines(lines) ==
  IF Len(lines) = 0 THEN <<>>
  ELSE IF Len(lines) = 1 THEN lines[1]
  ELSE lines[1] \o <<NewLine>> \o JoinLines(Tail(lines))

LinesOver(menu, n) == UNION {[1..k -> menu] : k \in 1..n}

JsTexts == {JoinLines(ls) : ls \in LinesOver(JsLines, MaxLines)}

ScriptOpenTags ==
  {<<"<script", ">">>, <<"<script", " ", "setup", ">">>,
   <<"<script", "\n", " ", " ", "setup", ">">>}
TemplateBlocks ==
  {<<>>,
   <<NewLine, "<template", ">", "\n", " ", " ", "<div", "/>", "\n", "</template>", "\n">>,
   <<"<template", ">", "\n", " ", " ", "<c", " ", ":is=", "\"", "import", "(", "'", "./t", "'", ")",
     "\"", "/>", "\n", "</template>", "\n", "\n">>}
ScriptBlockText(open, body) == open \o <<NewLine>> \o body \o <<NewLine, "</script>">>
FirstScripts ==
  {ScriptBlockText(open, JoinLines(ls)) :
     open \in ScriptOpenTags, ls \in LinesOver(VueLines, MaxLines - 1)}
SecondScripts ==
  {<<>>} \cup
  {<<NewLine>> \o ScriptBlockText(<<"<script", ">">>, body) :
     body \in {PlainImport, MultiLineImport}}
VueTexts ==
  {template \o first \o second \o <<NewLine>> :
     template \in TemplateBlocks, first \in FirstScripts, second \in SecondScripts}

\* the new specifiers of an edit: shorter and longer than the ones replaced
\* and one of a file whose name ends in a dollar sign
ShortSpecifier == <<"./n">>
LongSpecifier == <<"@/moved/longer/n">>
DollarSpecifier == <<"./stream", "$">>
SpecifierStyles == {"long", "mixed", "dollar"}
NewSpecifier(style, k) ==
  CASE style = "long" -> LongSpecifier
    [] style = "dollar" -> IF k = 1 THEN DollarSpecifier ELSE ShortSpecifier
    [] OTHER -> IF k % 2 = 1 THEN LongSpecifier ELSE ShortSpecifier

InitParse ==
  /\ files = <<>> /\ dirs = {} /\ configs = <<>>
  /\ mode = "parse"
  /\ pc = "parse"
  /\ \/ \E c \in JsTexts : args = [extension |-> ".ts", content |-> c]
     \/ \E c \in VueTexts : args = [extension |-> ".vue", content |-> c]
     \/ \E ext \in {".tsx", ".js", ".jsx", ".css"}, c \in {JoinLines(<<l>>) : l \in JsLines} :
          args = [extension |-> ext, content |-> c]
  /\ out = [imports |-> <<>>, updates |-> <<>>, result |-> <<>>]

\* ImportParser.parseImports on the file
ParseFile ==
  /\ mode = "parse" /\ pc = "parse"
  /\ out' = [out EXCEPT !.imports = parseImports(args)]
  /\ pc' = "update"
  /\ UNCHANGED <<files, dirs, configs, mode, args>>

\* ImportParser.updateImportsInContent on the file's content with edits built
\* from records of the parse, given in any order
UpdateFile ==
  /\ mode = "parse" /\ pc = "update"
  /\ \E chosen \in SUBSET (1..Len(out.imports)) :
       /\ Cardinality(chosen) <= MaxUpdates
       /\ \E order \in Perms(chosen), style \in SpecifierStyles :
            \E updates \in {[k \in 1..Len(order) |->
                               [from |-> out.imports[order[k]],
                                to |-> NewSpecifier(style, order[k])]]} :
              out' = [out EXCEPT !.updates = updates,
                                 !.result = updateImportsInText(args.content, updates)]
  /\ pc' = "done"
  /\ UNCHANGED <<files, dirs, configs, mode, args>>

NextParse == ParseFile \/ UpdateFile

SpecParse == InitParse /\ [][NextParse]_vars

\* ------------------------------------------------------------------------
\* SpecBarrel: the parser on barrel files (index.ts), whose statements
\* re-export other modules
\* ------------------------------------------------------------------------

ExportTypeLine ==
  <<"export", " ", "type", " ", "{", " ", "a", ",", " ", "b", " ", "}", " ", "from", " ",
    "'", "./user", "'", ";">>
ExportNamedLine == <<"export", " ", "{", " ", "c", " ", "}", " ", "from", " ", "\"", "./c", "\"">>
ExportStarLine == <<"export", " ", "*", " ", "from", " ", "'", "./product", "'", ";">>
BarrelLines == {EmptyLine, PlainImport, ExportTypeLine, ExportNamedLine, ExportStarLine}
BarrelTexts == {JoinLines(ls) : ls \in LinesOver(BarrelLines, MaxLines)}

InitBarrel ==
  /\ files = <<>> /\ dirs = {} /\ configs = <<>>
  /\ mode = "parse"
  /\ pc = "parse"
  /\ \E c \in BarrelTexts : args = [extension |-> ".ts", content |-> c]
  /\ out = [imports |-> <<>>, updates |-> <<>>, result |-> <<>>]

SpecBarrel == InitBarrel /\ [][NextParse]_vars

\* ---------------------------------------------------------------------------
\* TsConfigResolver.stripJsonComments: a config text is a sequence of
\* characters, scanned once from left to right.
\* ---------------------------------------------------------------------------

DoubleQuote == "\""
SingleQuote == "'"
Backslash == "\\"
Slash == "/"
Star == "*"
\* "\r" is scanned like "\n"
LineBreaks == {NewLine}

\* json[i], undefined beyond the text ("" stands for undefined, as for prevChar)
CharAt(json, i) == IF i >= 1 /\ i <= Len(json) THEN json[i] ELSE ""

\* the scanner's variables before the first character
ScanStart == [result |-> <<>>, inString |-> FALSE, inSingleLineComment |-> FALSE,
              inMultiLineComment |-> FALSE, stringDelimiter |-> ""]

\* the quote test of the loop: a quote that follows a backslash is skipped
PrevEscapes(json, i) == CharAt(json, i - 1) = Backslash

\* the "toggle string state" block of one iteration
ToggleString(json, i, st) ==
  IF /\ json[i] \in {DoubleQuote, SingleQuote}
     /\ ~PrevEscapes(json, i)
     /\ ~st.inSingleLineComment /\ ~st.inMultiLineComment
  THEN IF ~st.inString
       THEN [st EXCEPT !.inString = TRUE, !.stringDelimiter = json[i]]
       ELSE IF json[i] = st.stringDelimiter
            THEN [st EXCEPT !.inString = FALSE, !.stringDelimiter = ""]
            ELSE st
  ELSE st

\* the for loop from index i on (1-based), with the scanner's variables st
RECURSIVE ScanFrom(_, _, _)
ScanFrom(json, i, st0) ==
  IF i > Len(json) THEN st0.result
  ELSE LET char == json[i]
           nextChar == CharAt(json, i + 1)
           st == ToggleString(json, i, st0)
           outside == ~st.inString /\ ~st.inSingleLineComment /\ ~st.inMultiLineComment
       IN IF outside /\ char = Slash /\ nextChar = Star
          THEN ScanFrom(json, i + 2, [st EXCEPT !.inMultiLineComment = TRUE])
          ELSE IF st.inMultiLineComment /\ char = Star /\ nextChar = Slash
          THEN ScanFrom(json, i + 2, [st EXCEPT !.inMultiLineComment = FALSE])
          ELSE IF outside /\ char = Slash /\ nextChar = Slash
          THEN ScanFrom(json, i + 2, [st EXCEPT !.inSingleLineComment = TRUE])
          ELSE IF st.inSingleLineComment /\ char \in LineBreaks
          THEN ScanFrom(json, i + 1, [st EXCEPT !.inSingleLineComment = FALSE,
                                                !.result = @ \o <<char>>])
          ELSE IF ~st.inSingleLineComment /\ ~st.inMultiLineComment
          THEN ScanFrom(json, i + 1, [st EXCEPT !.result = @ \o <<char>>])
          ELSE ScanFrom(json, i + 1, st)

stripJsonComments(json) == ScanFrom(json, 1, ScanStart)

\* the characters of the config texts
JsonChars == {DoubleQuote, SingleQuote, Backslash, Slash, Star, NewLine, "a"}
MaxJsonLen == 6
JsonTexts == UNION {[1..n -> JsonChars] : n \in 0..MaxJsonLen}

InitStrip ==
  /\ mode = "strip"
  /\ pc = "start"
  /\ files = <<>> /\ dirs = {} /\ configs = <<>>
  /\ \E json \in JsonTexts : args = [json |-> json]
  /\ out = <<>>

\* parseConfig: const cleanedContent = this.stripJsonComments(content)
StripJsonComments ==
  /\ mode = "strip" /\ pc = "start"
  /\ out' = stripJsonComments(args.json)
  /\ pc' = "done"
  /\ UNCHANGED <<files, dirs, configs, mode, args>>

NextStrip == StripJsonComments

SpecStrip == InitStrip /\ [][NextStrip]_vars
\* ------------------------------------------------------------------------
\* Claims
\* ------------------------------------------------------------------------

\* the project as the run found it
World0 == [files |-> args.files0, dirs |-> args.dirs0, configs |-> configs]

MovedF == getNewPathAfterMove(args.F, args.from, args.to)

\* C1: round trip. Whenever calculateNewImportPath rewrote S to S', resolving
\* S' from F's post-move location, in the file system after the move, yields
\* the post-move location of the path S resolved to.
C1_RoundTrip ==
  (mode = "resolve" /\ pc = "moved" /\ out.newSpec # Null) =>
    resolveImportPath(World, out.newSpec, MovedF)
      = getNewPathAfterMove(out.abs, args.from, args.to)

\* the "@" form of a path under /proj/src
AtForm(p) == << <<"@">> >> \o relative(Src, p)

\* in the project as found, import i of F is '@/components/Button.vue', F is
\* not moved, Button.vue goes to another path under /proj/src, and no other
\* import of F resolves to a moved path
C2_Case(F, i) ==
  /\ mode = "move" /\ ~args.useGlobPattern /\ pc = "done"
  /\ F \in DOMAIN args.files0 /\ ButtonVue \in DOMAIN args.files0
  /\ i \in 1..Len(args.files0[F]) /\ args.files0[F][i] = AtButton
  /\ ~isPathAffectedByMove(F, args.source)
  /\ isPathAffectedByMove(ButtonVue, args.source)
  /\ getNewPathAfterMove(ButtonVue, args.source, out.finalDest) # ButtonVue
  /\ Under(getNewPathAfterMove(ButtonVue, args.source, out.finalDest), Src)
  /\ \A j \in 1..Len(args.files0[F]) : j # i =>
       LET p == resolveImportPath(World0, args.files0[F][j], F) IN
         p = Null \/ ~isPathAffectedByMove(p, args.source)

\* C2: end-to-end alias rewrite. With "@" -> /proj/src, when Button.vue,
\* imported as '@/components/Button.vue' by a file that is not moved, goes to
\* another path under /proj/src, the run yields exactly one UpdateResult for
\* the importer, with updatedImports = 1 and the one change to the "@" form
\* of the new location, and (unless dry run) the importer's content differs
\* from before in that one specifier only.
C2_AliasRewrite ==
  \A F \in DOMAIN args.files0 : \A i \in 1..Len(args.files0[F]) :
    C2_Case(F, i) =>
      LET to == AtForm(getNewPathAfterMove(ButtonVue, args.source, out.finalDest))
          mine == {k \in 1..Len(out.results) : out.results[k].filePath = F}
      IN /\ Cardinality(mine) = 1
         /\ \A k \in mine :
              /\ out.results[k].updatedImports = 1
              /\ out.results[k].changes = <<[line |-> i, from |-> AtButton, to |-> to]>>
         /\ files[F] = IF args.dryRun THEN args.files0[F]
                       ELSE [args.files0[F] EXCEPT ![i] = to]

\* Button.vue has gone to /proj/src/shared/Button.vue, and Home.vue, with the
\* untouched import of 'vue' beside it, now imports '@/shared/Button.vue'
C2_Witness ==
  /\ mode = "move" /\ pc = "done" /\ ~args.dryRun
  /\ args.source = ButtonVue /\ out.finalDest = SharedButtonVue
  /\ SharedButtonVue \in DOMAIN files /\ ButtonVue \notin DOMAIN files
  /\ args.files0[HomeVue] = <<BareVue, AtButton>>
  /\ files[HomeVue] = <<BareVue, AtForm(SharedButtonVue)>>
  /\ Len(out.results) = 1 /\ out.results[1].updatedImports = 1

ConfigRules == {configs[ProjConfig].paths[i] : i \in 1..Len(configs[ProjConfig].paths)}
ComponentsButton == << <<"@components">>, <<"Button", "vue">> >>

\* C3: alias specificity. The rule resolveImportPath substitutes has the
\* longest token among the rules that match the specifier, in whatever order
\* the config file lists them; with "@" and "@components" configured,
\* "@components/Button.vue" is resolved under the "@components" target.
C3_AliasSpecificity ==
  (mode = "resolve" /\ pc # "start" /\ ~isAbsolute(args.S)) =>
    LET aliases == getAliasesForFile(World, args.F) IN
      /\ \A j \in 1..Len(aliases) :
           AliasMatches(aliases[j].alias, args.S) =>
             /\ out.rule # NoRule
             /\ AliasMatches(out.rule.alias, args.S)
             /\ PathLen(out.rule.alias) >= PathLen(aliases[j].alias)
      /\ (args.S = ComponentsButton /\ {RuleAt, RuleComponents} \subseteq ConfigRules) =>
           /\ out.rule = [alias |-> << <<"@components">> >>,
                          path |-> Src \o << <<"components">> >>]
           /\ out.abs = ButtonVue

\* two rules match the specifier, the config file lists the shorter one
\* first, and the longer one was substituted
C3_Witness ==
  /\ mode = "resolve" /\ pc = "rewritten"
  /\ \E i, j \in 1..Len(configs[ProjConfig].paths) :
       LET a == StripWildcard(configs[ProjConfig].paths[i].pattern)
           b == StripWildcard(configs[ProjConfig].paths[j].pattern)
       IN /\ i < j
          /\ AliasMatches(a, args.S) /\ AliasMatches(b, args.S)
          /\ PathLen(a) < PathLen(b)
          /\ out.rule.alias = b
          /\ out.abs # Null

EndsWithSourceExt(spec) ==
  \E i \in 1..Len(SourceExts) : extname(spec) = SourceExts[i]

\* C4: extension preservation. When the original specifier has no extension
\* and resolves to a source file, the new specifier carries no source-file
\* extension either; when the original carries one, the new one carries the
\* extension of the file's new path.
C4_ExtensionPreserved ==
  (mode = "resolve" /\ pc = "rewritten" /\ out.newSpec # Null
     /\ out.abs \in DOMAIN files) =>
    /\ extname(args.S) = "" => ~EndsWithSourceExt(out.newSpec)
    /\ EndsWithSourceExt(args.S) =>
         extname(out.newSpec) = extname(getNewPathAfterMove(out.abs, args.from, args.to))

\* a directory is moved, not as a dry run, onto a directory that exists, and
\* neither lies inside the other
C5_Case ==
  /\ mode = "move" /\ ~args.useGlobPattern /\ ~args.dryRun
  /\ args.source \in args.dirs0 /\ args.dest \in args.dirs0
  /\ args.source # args.dest
  /\ ~Under(args.dest, args.source) /\ ~Under(args.source, args.dest)

EditsOf(f, i) == {k \in 1..Len(out.edits) : out.edits[k].file = f /\ out.edits[k].import = i}

\* import i of f resolved, in the project as found, to a matched file
AffectedSpecifier(f, i) ==
  resolveImportPath(World0, args.files0[f][i], f) \in globby(World0, args.source)

\* a glob fan-out, not a dry run, into a destination that is no file, has ended
C6_Case ==
  /\ mode = "move" /\ args.useGlobPattern /\ ~args.dryRun /\ pc = "done"
  /\ args.dest \notin DOMAIN args.files0

\* C6 as stated: the fan-out places every matched file at
\* destination/<basename>, and over the whole fan-out every specifier that
\* resolved to a matched file is edited exactly once.
C6_ExactlyOnce ==
  C6_Case =>
    /\ \A m \in globby(World0, args.source) : Append(args.dest, basename(m)) \in DOMAIN files
    /\ \A f \in DOMAIN args.files0 : \A i \in 1..Len(args.files0[f]) :
         AffectedSpecifier(f, i) => Cardinality(EditsOf(f, i)) = 1

\* where the file that began as f is now
NowAt(f) == CHOOSE q \in DOMAIN files : out.origin[q] = f

\* C6: glob fan-out. No item fails; every matched file ends at
\* destination/<basename> and nowhere else; every specifier that resolved to
\* a matched file is edited at most once per item and at least once, twice
\* exactly when it is a relative specifier whose importer is matched too (once
\* when the importer moves, once when the target moves); and after the
\* fan-out it resolves to the target's new location.
C6_FanOut ==
  C6_Case =>
    /\ out.failed = <<>>
    /\ \A m \in globby(World0, args.source) :
         /\ Append(args.dest, basename(m)) \in DOMAIN files
         /\ m \notin DOMAIN files
    /\ \A f \in DOMAIN args.files0 : \A i \in 1..Len(args.files0[f]) :
         AffectedSpecifier(f, i) =>
           /\ \A k, l \in EditsOf(f, i) : out.edits[k].item = out.edits[l].item => k = l
           /\ Cardinality(EditsOf(f, i)) =
                IF f \in globby(World0, args.source) /\ StartsWithDot(args.files0[f][i])
                THEN 2 ELSE 1
           /\ resolveImportPath(World, files[NowAt(f)][i], NowAt(f))
                = Append(args.dest, basename(resolveImportPath(World0, args.files0[f][i], f)))

\* s1.ts and s2.ts import each other by relative specifiers, both have been
\* moved into src/core, and each of the two specifiers was edited twice
C6_Witness ==
  /\ C6_Case /\ args.dest = Core
  /\ {S1, S2} \subseteq DOMAIN args.files0
  /\ args.files0[S1] = << <<Cur, <<"s2">>>> >> /\ args.files0[S2] = << <<Cur, <<"s1">>>> >>
  /\ Append(Core, basename(S1)) \in DOMAIN files /\ Append(Core, basename(S2)) \in DOMAIN files
  /\ Cardinality(EditsOf(S1, 1)) = 2 /\ Cardinality(EditsOf(S2, 1)) = 2
  /\ files[Append(Core, basename(S1))] = << <<Cur, <<"s2">>>> >>

NoDuplicates(seq) == \A i, j \in 1..Len(seq) : seq[i] = seq[j] => i = j

\* config c extends the config at path p
ExtendsEdge(c, p) ==
  /\ c \in DOMAIN configs /\ configs[c].extends # NoExtends
  /\ resolveConfigPath(World, configs[c].extends, dirname(c)) = p

\* the extends chain from the parsed config returns to one of its configs
RECURSIVE ChainCycles(_, _)
ChainCycles(c, seen) ==
  IF c \in seen THEN TRUE
  ELSE IF c \notin DOMAIN configs \/ configs[c].extends = NoExtends THEN FALSE
  ELSE LET p == resolveConfigPath(World, configs[c].extends, dirname(c)) IN
    IF p = Null THEN FALSE ELSE ChainCycles(p, seen \cup {c})

C7_Safe ==
  mode = "config" =>
    /\ NoDuplicates(out.reads)
    /\ Len(out.reads) < MaxReads
    /\ ChainCycles(args.configPath, {}) => pc # "done"
    /\ (pc = "error" /\ out.error.message = "Circular extends detected: ") =>
         LET chain == out.error.chain IN
           /\ chain[1] = args.configPath
           /\ \A i \in 1..(Len(chain) - 1) : ExtendsEdge(chain[i], chain[i + 1])
           /\ \E i \in 1..(Len(chain) - 1) : chain[i] = chain[Len(chain)]
           /\ NoDuplicates(SubSeq(chain, 1, Len(chain) - 1))
           /\ out.reads = SubSeq(chain, 1, Len(chain) - 1)

C7_Terminated == mode = "config" /\ pc \in {"done", "error"}

\* C7: cycle detection. parseConfig on a config whose extends chain returns
\* to a config of the chain never returns a result: it fails with the
\* circular-extends error, whose chain starts at the parsed config, follows
\* the extends edges and ends with the repeated config; no config file is
\* read twice in one parseConfig (the files read are the chain's configs, once
\* each); and every parseConfig returns or throws.
C7_CycleDetection == [](C7_Safe) /\ <>(C7_Terminated)

\* tsconfig.json extends base.json, which extends tsconfig.json: the error
\* names tsconfig.json, base.json, tsconfig.json after two reads
C7_Witness ==
  /\ mode = "config" /\ pc = "error"
  /\ out.error = [message |-> "Circular extends detected: ", chain |-> <<CfgA, CfgB, CfgA>>]
  /\ out.reads = <<CfgA, CfgB>>

\* C8: idempotence. A second Analyze + Rewrite pass over the project a first
\* pass has left (the same move arguments, nothing left to relocate) makes no
\* edit: calculateNewImportPath returns null.
C8_Idempotent ==
  (mode = "resolve" /\ pc = "second") => out.second = Null

\* the first pass rewrote the import, the rewritten import resolves, and the
\* second pass has run
C8_Witness ==
  /\ mode = "resolve" /\ pc = "second"
  /\ out.newSpec # Null
  /\ resolveImportPath(World, out.newSpec, MovedF) # Null
  /\ out.second = Null

\* the edits a dry run computes for the move of item, every one of them on
\* the project as found
DryEdits(item, dest) ==
  {<<f, i>> \in (DOMAIN findAllFiles(World0)) \X (1..MaxImports) :
     /\ i <= Len(args.files0[f])
     /\ calculateNewImportPath(World0, args.files0[f][i], f, item, dest,
                               NewFromFile(f, item, dest)) # Null}

RECURSIVE SumCard(_)
SumCard(S) ==
  IF S = {} THEN 0
  ELSE LET x == CHOOSE y \in S : TRUE IN Cardinality(x[2]) + SumCard(S \ {x})

\* C9: dry run. With dryRun set the file system stays as the run found it
\* (no content written, no directory made or removed, nothing renamed), for a
\* single item and through a glob fan-out, while the edits are computed: a
\* single move ends with one UpdateResult for each file with an import to
\* edit, carrying those edits, and a fan-out counts every item as moved and
\* totals the edits of all its items.
C9_DryRun ==
  (mode = "move" /\ args.dryRun) =>
    /\ files = args.files0 /\ dirs = args.dirs0
    /\ \A k \in 1..Len(out.log) : out.log[k].op \in {"stat", "findAllFiles", "globby"}
    /\ pc # "error" \/ out.error.message = "Source path does not exist: "
    /\ (pc = "done" /\ ~args.useGlobPattern) =>
         \A f \in DOMAIN findAllFiles(World0) :
              LET mine == {k \in 1..Len(out.results) :
                             out.results[k].filePath =
                               getNewPathAfterMove(f, args.source, out.finalDest)}
                  edits == {e \in DryEdits(args.source, out.finalDest) : e[1] = f}
              IN IF edits = {} THEN mine = {}
                 ELSE /\ Cardinality(mine) = 1
                      /\ \A k \in mine :
                           /\ out.results[k].updatedImports = Cardinality(edits)
                           /\ {out.results[k].changes[c].line :
                                 c \in 1..Len(out.results[k].changes)}
                                = {e[2] : e \in edits}
    /\ (pc = "done" /\ args.useGlobPattern) =>
         LET matched == globby(World0, args.source) IN
           /\ out.movedItems = Cardinality(matched)
           /\ out.totalUpdates =
                SumCard({<<m, DryEdits(m, calculateGlobDestination(m, args.dest))>> :
                           m \in matched})

\* a dry-run fan-out of two items has ended, edits were counted for it, and
\* the services are where they were
C9_Witness ==
  /\ mode = "move" /\ args.dryRun /\ args.useGlobPattern /\ pc = "done"
  /\ out.movedItems = 2 /\ out.totalUpdates >= 2
  /\ S1 \in DOMAIN files /\ S2 \in DOMAIN files
  /\ files = args.files0

\* C10: source not found. The move of a literal source path that does not
\* exist fails with 'Source path does not exist: <path>', and before that
\* nothing is enumerated, rewritten or renamed: no file-system call is made,
\* no file is flagged, no result is produced and the file system is as found.
C10_SourceNotFound ==
  (mode = "move" /\ ~args.useGlobPattern /\ ~existsSync(World0, args.source)) =>
    /\ pc \in {"start", "error"}
    /\ files = args.files0 /\ dirs = args.dirs0
    /\ out.log = <<>> /\ out.snapshot = <<>> /\ out.queue = <<>> /\ out.results = <<>>
    /\ pc = "error" =>
         out.error = [message |-> "Source path does not exist: ", path |-> args.source]

\* the move of the missing /proj/src/gone.ts has failed
C10_Witness ==
  /\ mode = "move" /\ pc = "error"
  /\ args.source = MissingPath /\ ~existsSync(World0, MissingPath)
  /\ out.error = [message |-> "Source path does not exist: ", path |-> MissingPath]
  /\ out.log = <<>>

\* C11: failure atomicity of a literal move. Whenever the move of a literal
\* source ends with an error thrown to the caller, no importer's content has
\* been written and nothing has been renamed: every file is where it was,
\* with the content it had.
C11_FailureAtomic ==
  (mode = "move" /\ ~args.useGlobPattern /\ pc = "error") =>
    /\ files = args.files0
    /\ \A k \in 1..Len(out.log) : out.log[k].op # "writeFile"

\* the number of file-system calls of kind op the run has made
CountOps(op) == Cardinality({k \in 1..Len(out.log) : out.log[k].op = op})

\* C12: glob partial-failure tolerance. An error raised while an item of a
\* fan-out is processed is caught and recorded against the item; the fan-out
\* never ends in an error once its first item has begun; and when it ends
\* every matched item has had its own enumeration and analysis and (unless
\* dry run) its own physical move attempted, each item counted either as
\* moved or as failed.
C12_PartialFailure ==
  (mode = "move" /\ args.useGlobPattern) =>
    LET matched == globby(World0, args.source) IN
      /\ pc = "error" => out.source = Null
      /\ \A k \in 1..Len(out.failed) : out.failed[k] \in matched
      /\ pc = "done" =>
           /\ out.items = <<>>
           /\ CountOps("findAllFiles") = Cardinality(matched)
           /\ CountOps("performMove") = IF args.dryRun THEN 0 ELSE Cardinality(matched)
           /\ out.movedItems + Len(out.failed) = Cardinality(matched)
           /\ ~args.dryRun =>
                \A m \in matched :
                  \/ \E k \in 1..Len(out.failed) : out.failed[k] = m
                  \/ Append(args.dest, basename(m)) \in DOMAIN files

\* the move of the first matched item failed, the second item was still
\* analysed, rewritten and its move attempted, and the fan-out has ended
C12_Witness ==
  /\ mode = "move" /\ args.useGlobPattern /\ ~args.dryRun /\ pc = "done"
  /\ Len(out.failed) = 2
  /\ CountOps("findAllFiles") = 2 /\ CountOps("performMove") = 2
  /\ \E k \in 1..Len(out.edits) : out.edits[k].item = out.failed[2]

\* the edits' records are pairwise non-overlapping and each lies in the
\* content at its offsets
EditsDisjoint(updates) ==
  \A i, j \in 1..Len(updates) :
    i # j => \/ updates[i].from.end <= updates[j].from.start
             \/ updates[j].from.end <= updates[i].from.start
EditsAnchored(content, updates) ==
  \A k \in 1..Len(updates) :
    substring(content, updates[k].from.start, updates[k].from.end) = updates[k].from.original

\* a statement with the text between the quotes of its specifier replaced
SubstitutedStatement(from, to) ==
  LET at == {k \in 1..(Len(from.original) - Len(from.path) - 1) :
               /\ IsQuote(from.original[k])
               /\ SubSeq(from.original, k + 1, k + Len(from.path)) = from.path
               /\ from.original[k + Len(from.path) + 1] = from.original[k]}
      k == CHOOSE x \in at : \A y \in at : x >= y
  IN SubSeq(from.original, 1, k) \o to
       \o SubSeq(from.original, k + Len(from.path) + 1, Len(from.original))

\* the content from offset pos on with every span of the edits, taken in
\* ascending order, replaced by its substituted statement
RECURSIVE SplicedFrom(_, _, _)
SplicedFrom(content, pos, ascending) ==
  IF ascending = <<>> THEN substring(content, pos, Width(content))
  ELSE substring(content, pos, Head(ascending).from.start)
         \o SubstitutedStatement(Head(ascending).from, Head(ascending).to)
         \o SplicedFrom(content, Head(ascending).from.end, Tail(ascending))

ExpectedSplice(content, updates) ==
  LET q == CHOOSE q \in Perms(1..Len(updates)) :
             \A i, j \in 1..Len(updates) :
               i < j => updates[q[i]].from.start <= updates[q[j]].from.start
  IN SplicedFrom(content, 0, [k \in 1..Len(updates) |-> updates[q[k]]])

\* C13: splice composition. For edits whose records are pairwise
\* non-overlapping and lie in the content at their offsets, the result of
\* updateImportsInContent is the content with each record's span replaced by
\* its statement in which only the text between the specifier's quotes is
\* substituted, everything else unchanged, whatever the order of the edits.
C13_SpliceComposition ==
  (mode = "parse" /\ pc = "done"
     /\ EditsDisjoint(out.updates) /\ EditsAnchored(args.content, out.updates)) =>
    out.result = ExpectedSplice(args.content, out.updates)

\* the same composition for edits whose new specifiers hold no dollar sign
SpliceCompositionPlain ==
  (mode = "parse" /\ pc = "done"
     /\ \A k \in 1..Len(out.updates) :
          \A i \in 1..Len(out.updates[k].to) : out.updates[k].to[i] # "$") =>
    /\ EditsDisjoint(out.updates) /\ EditsAnchored(args.content, out.updates)
    /\ out.result = ExpectedSplice(args.content, out.updates)

\* a statement holds the specifier between two quotes
HoldsQuoted(original, path) ==
  \E k \in 1..(Len(original) - Len(path) - 1) :
    /\ IsQuote(original[k])
    /\ SubSeq(original, k + 1, k + Len(path)) = path
    /\ IsQuote(original[k + Len(path) + 1])

\* C14: whole-file offsets. Every record parseImports returns, for a plain
\* source file and for a component file with script regions and a template
\* region, lies in the whole file's content at its offsets:
\* content.substring(start, end) is the record's original text, and that text
\* holds the record's specifier between quotes.
C14_WholeFileOffsets ==
  (mode = "parse" /\ pc \in {"update", "done"}) =>
    \A k \in 1..Len(out.imports) :
      LET imp == out.imports[k] IN
        /\ OffsetOf(args.content, TokenAt(args.content, imp.start)) = imp.start
        /\ OffsetOf(args.content, TokenAt(args.content, imp.end)) = imp.end
        /\ substring(args.content, imp.start, imp.end) = imp.original
        /\ imp.path # <<>>
        /\ HoldsQuoted(imp.original, imp.path)

\* a component file with a template region and two script regions, each of
\* which gave a record
C14_Witness ==
  /\ mode = "parse" /\ pc = "update" /\ args.extension = ".vue"
  /\ Len(extractVueScriptBlocks(args.content)) = 2
  /\ \E i, j, k \in 1..Len(out.imports) :
       /\ out.imports[i].type = "static" /\ out.imports[i].path = <<"./x">>
       /\ out.imports[j].type = "static" /\ out.imports[j].path = <<"@/m">>
       /\ out.imports[i].start < out.imports[j].start
       /\ out.imports[j].start
            >= extractVueScriptBlocks(args.content)[2].offset
       /\ out.imports[k].type = "dynamic" /\ out.imports[k].path = <<"./t">>
       /\ out.imports[k].start < out.imports[i].start

\* the 1-based number of the physical line of the whole file on which the
\* import keyword of a record's statement stands
KeywordLine(content, imp) ==
  LineAt(content, FirstFrom(content, TokenAt(content, imp.start), {"import"}))

IsImportStatement(imp) ==
  imp.type = "static" /\ \E i \in 1..Len(imp.original) : imp.original[i] = "import"

\* C15: line numbers. The line of every static-import record parseImports
\* returns is the number, in the whole file, of the physical line on which the
\* statement's import keyword stands, in plain source files and in a component
\* file's script regions, whatever blank lines or indentation come before.
C15_KeywordLine ==
  (mode = "parse" /\ pc \in {"update", "done"}) =>
    \A k \in 1..Len(out.imports) :
      IsImportStatement(out.imports[k]) =>
        out.imports[k].line = KeywordLine(args.content, out.imports[k])

\* the records whose statement follows no blank line and no tag have the
\* line of their keyword
KeywordLineUnpreceded ==
  (mode = "parse" /\ pc \in {"update", "done"}) =>
    \A k \in 1..Len(out.imports) :
      (IsImportStatement(out.imports[k]) /\ Head(out.imports[k].original) # NewLine) =>
        out.imports[k].line = KeywordLine(args.content, out.imports[k])

\* the token positions at which a run of tokens stands in a content
Occurrences(content, run) ==
  {i \in 1..(Len(content) - Len(run) + 1) : SubSeq(content, i, i + Len(run) - 1) = run}

\* the static records whose span shares a character with the run at i
StaticRecordsOn(content, imports, i, run) ==
  {k \in 1..Len(imports) :
     /\ imports[k].type = "static"
     /\ imports[k].start < OffsetOf(content, i + Len(run))
     /\ imports[k].end > OffsetOf(content, i)}

\* C16: multi-line imports. A static import whose named-import list spans
\* several physical lines before the from keyword gives exactly one static
\* record, which carries the quoted specifier and covers the declaration;
\* import-like text inside a string literal on a line that does not begin
\* with the import keyword gives no static record.
C16_MultiLine ==
  (mode = "parse" /\ pc \in {"update", "done"} /\ args.extension \notin {".css"}) =>
    /\ \A i \in Occurrences(args.content, MultiLineImport) :
         \E k \in 1..Len(out.imports) :
           /\ StaticRecordsOn(args.content, out.imports, i, MultiLineImport) = {k}
           /\ out.imports[k].path = <<"@/m">>
           /\ out.imports[k].start <= OffsetOf(args.content, i)
           /\ out.imports[k].end = OffsetOf(args.content, i + Len(MultiLineImport))
    /\ \A i \in Occurrences(args.content, StringLiteralLine) :
         StaticRecordsOn(args.content, out.imports, i, StringLiteralLine) = {}

\* a file that holds a multi-line import, a string literal with import-like
\* text and a one-line import, parsed into two static records
C16_Witness ==
  /\ mode = "parse" /\ pc = "update" /\ args.extension = ".ts"
  /\ args.content = JoinLines(<<MultiLineImport, StringLiteralLine, PlainImport>>)
  /\ Len(out.imports) = 2
  /\ out.imports[1].path = <<"@/m">> /\ out.imports[1].line = 1
  /\ out.imports[2].path = <<"./x">>

\* a compilerOptions key of a config that is there
DefinesPaths(c) == c.hasCompilerOptions /\ c.hasPaths
DefinesBaseUrl(c) == c.hasCompilerOptions /\ c.hasBaseUrl
DefinesStrict(c) == c.hasCompilerOptions /\ c.hasStrict

\* C20: extends merge. In the merge of a child over its parent, the alias
\* mapping (compilerOptions.paths) is the child's mapping as a whole whenever
\* the child defines one, the parent's when the child defines none, and every
\* other compilerOptions key has the child's value when the child defines it
\* and the parent's value otherwise.
C20_ExtendsMerge ==
  (mode = "merge" /\ pc = "done") =>
    /\ DefinesPaths(args.child) => DefinesPaths(out) /\ out.paths = args.child.paths
    /\ (~DefinesPaths(args.child) /\ DefinesPaths(args.parent)) =>
         DefinesPaths(out) /\ out.paths = args.parent.paths
    /\ (~DefinesPaths(args.child) /\ ~DefinesPaths(args.parent)) => ~DefinesPaths(out)
    /\ DefinesBaseUrl(out) = (DefinesBaseUrl(args.child) \/ DefinesBaseUrl(args.parent))
    /\ DefinesBaseUrl(args.child) => out.baseUrl = args.child.baseUrl
    /\ (~DefinesBaseUrl(args.child) /\ DefinesBaseUrl(args.parent)) =>
         out.baseUrl = args.parent.baseUrl
    /\ DefinesStrict(out) = (DefinesStrict(args.child) \/ DefinesStrict(args.parent))
    /\ DefinesStrict(args.child) => out.strict = args.child.strict
    /\ (~DefinesStrict(args.child) /\ DefinesStrict(args.parent)) =>
         out.strict = args.parent.strict

\* a child with its own mapping and base URL merged over a parent with
\* another mapping, base URL and a key the child lacks
C20_Witness ==
  /\ mode = "merge" /\ pc = "done"
  /\ args.parent.hasCompilerOptions /\ args.parent.paths = <<RuleTilde, RuleAt>>
  /\ args.parent.hasBaseUrl /\ args.parent.hasStrict
  /\ args.child.hasCompilerOptions /\ args.child.hasPaths /\ args.child.paths = <<RuleAt>>
  /\ args.child.hasBaseUrl /\ ~args.child.hasStrict
  /\ out.paths = <<RuleAt>> /\ out.baseUrl = <<Cur, <<"src">>>>
  /\ out.hasStrict /\ out.strict = args.parent.strict

\* the config file of the nearest directory at or above dirname(file) that
\* holds tsconfig.json or jsconfig.json (tsconfig.json first), null when there
\* is none or when a directory nearer to the file holds a .git marker
NearestConfig(w, file) ==
  LET above == Ancestors(dirname(file))
      withConfig == {d \in above : \/ existsSync(w, Append(d, TsConfigName))
                                   \/ existsSync(w, Append(d, JsConfigName))}
      withGit == {d \in above : existsSync(w, Append(d, GitName))}
  IN IF withConfig = {} THEN Null
     ELSE LET d == CHOOSE x \in withConfig : \A y \in withConfig : Len(x) >= Len(y) IN
       IF \E g \in withGit : Len(g) > Len(d) THEN Null
       ELSE IF existsSync(w, Append(d, TsConfigName)) THEN Append(d, TsConfigName)
       ELSE Append(d, JsConfigName)

Range(s) == {s[i] : i \in DOMAIN s}

\* C19: config caching. Between two clearCache calls each config file is
\* parsed at most once however many files resolve to it, every lookup of a
\* file returns the very object its first lookup returned, and a config a
\* lookup resolves to has been read from disk since the last clearCache: the
\* first lookup after clearCache parses the file as it is on disk then.
C19_ConfigCaching ==
  mode = "lookup" =>
    /\ \A i, j \in 1..Len(out.parses) : i # j => out.parses[i] # out.parses[j]
    /\ out.last.file # Null =>
         /\ out.last.file \in DOMAIN out.returned
         /\ out.result = out.returned[out.last.file]
         /\ out.last.found # Null => out.last.found \in Range(out.parses)
         /\ out.last.parsed =>
              out.result = parseConfig(World, out.last.found, out.result.oid)

\* two files resolved to one config parsed once; then the config was
\* rewritten, the caches cleared, and the next lookup parsed the new content
C19_Witness ==
  /\ mode = "lookup" /\ out.clears = 1 /\ out.edits = 1
  /\ out.last.file = FileA /\ out.last.parsed
  /\ out.parses = <<Append(PkgSrc, TsConfigName)>>
  /\ out.result.ok /\ out.result.oid = 2
  /\ out.result.paths = <<RuleTilde, RuleAtLib>>

\* ---------------------------------------------------------------------------
\* C21: comment stripping
\* ---------------------------------------------------------------------------

\* the lexical structure of JSON with comments: where the character at i lies,
\* given where the scan stood before it. "out" is outside strings and comments,
\* "str" inside a string literal, "esc" right after a backslash in a string,
\* "line" and "block" inside a comment, "open" on the second character of a
\* comment opener, "close" on the "/" that ends a block comment.
RECURSIVE LexFrom(_, _, _)
LexFrom(json, i, at) ==
  IF i > Len(json) THEN <<>>
  ELSE LET char == json[i]
           nextChar == CharAt(json, i + 1)
           here == CASE at = "out" /\ char = DoubleQuote -> "quote"
                     [] at = "out" /\ char = Slash /\ nextChar = Slash -> "lineopen"
                     [] at = "out" /\ char = Slash /\ nextChar = Star -> "blockopen"
                     [] at = "out" -> "out"
                     [] at = "str" /\ char = Backslash -> "esc"
                     [] at = "str" /\ char = DoubleQuote -> "unquote"
                     [] at = "str" -> "str"
                     [] at = "esc" -> "escaped"
                     [] at = "lineopen" -> "line"
                     [] at = "blockopen" -> "block"
                     [] at = "line" /\ char = NewLine -> "out"
                     [] at = "line" -> "line"
                     [] at = "block" /\ char = Star /\ nextChar = Slash -> "blockclose"
                     [] at = "block" -> "block"
                     [] at = "blockclose" -> "closed"
           next == CASE here \in {"quote", "str", "escaped"} -> "str"
                     [] here \in {"unquote", "closed", "out"} -> "out"
                     [] here = "line" /\ at = "lineopen" -> "line"
                     [] here = "block" /\ at = "blockopen" -> "block"
                     [] OTHER -> here
       IN <<here>> \o LexFrom(json, i + 1, next)

Lex(json) == LexFrom(json, 1, "out")

InComment(kind) == kind \in {"lineopen", "blockopen", "line", "block", "blockclose", "closed"}
InLiteral(kind) == kind \in {"quote", "str", "esc", "escaped", "unquote"}

\* a text that is lexically JSON with comments: every string literal and every
\* block comment is closed, a string holds no raw line break and only the
\* escapes of a quote, a backslash or a slash, and outside strings and comments
\* there is no backslash and no single quote
WellFormedJsonc(json) ==
  LET lex == Lex(json)
  IN /\ json # <<>> => lex[Len(json)] \in {"out", "unquote", "closed", "line", "lineopen"}
     /\ \A i \in 1..Len(json) :
          /\ lex[i] = "lineopen" => i < Len(json)
          /\ lex[i] = "out" => json[i] \notin {Backslash, SingleQuote}
          /\ lex[i] = "str" => json[i] # NewLine
          /\ lex[i] = "escaped" => json[i] \in {DoubleQuote, Backslash, Slash}

\* the document without its comments: every character that lies in no comment
WithoutComments(json) ==
  LET lex == Lex(json)
  IN SelectSeq([i \in 1..Len(json) |-> <<json[i], lex[i]>>],
               LAMBDA c : ~InComment(c[2]))

CharsOf(pairs) == [i \in 1..Len(pairs) |-> pairs[i][1]]

\* C21: for every config text that is lexically JSON with comments, the text
\* stripJsonComments returns is the text with every // comment and every
\* /* */ comment outside a string literal removed and every character of a
\* string literal, escaped quotes and escaped backslashes included, unchanged.
C21_CommentStripping ==
  (mode = "strip" /\ pc = "done" /\ WellFormedJsonc(args.json))
    => out = CharsOf(WithoutComments(args.json))

HasEscapedBackslash(json) ==
  \E i \in 1..Len(json) : Lex(json)[i] = "escaped" /\ json[i] = Backslash

\* the same for the texts whose string literals hold no escaped backslash
StripWithoutEscapedBackslash ==
  (mode = "strip" /\ pc = "done" /\ WellFormedJsonc(args.json)
     /\ ~HasEscapedBackslash(args.json))
    => out = CharsOf(WithoutComments(args.json))

\* ---------------------------------------------------------------------------
\* C22: effective destination
\* ---------------------------------------------------------------------------

\* the destination's final path segment (the one before a trailing separator)
FinalSegment(destinationPath) == basename(WithoutSlash(destinationPath))

\* the destination is directory-shaped: it ends with a separator, or its
\* parent is a directory and its final segment has no extension
DirectoryShaped(w, destinationPath) ==
  \/ EndsWithSlash(destinationPath)
  \/ /\ isDirectory(w, dirname(WithoutSlash(destinationPath)))
     /\ extnameSeg(FinalSegment(destinationPath)) = ""

IntoDestination(w, destinationPath) ==
  \/ existsSyncPath(w, destinationPath) /\ isDirectory(w, WithoutSlash(destinationPath))
  \/ ~existsSyncPath(w, destinationPath) /\ DirectoryShaped(w, destinationPath)

\* C22: the effective destination of a literal-source move is
\* destination/basename(source) if the destination exists and is a directory,
\* or does not exist and is directory-shaped (trailing separator, or parent a
\* directory and final segment without extension); otherwise it is the
\* destination exactly as given.
C22_EffectiveDestination ==
  (mode = "dest" /\ pc = "done") =>
    out.finalDest =
      IF IntoDestination(World, args.dest)
      THEN Append(WithoutSlash(args.dest), basename(args.source))
      ELSE args.dest

\* the same where no directory on the way to the destination has a dot in its
\* name
NoDotBeforeFinal(destinationPath) == ~IncludesDot(dirname(WithoutSlash(destinationPath)))

EffectiveDestinationPlain ==
  (mode = "dest" /\ pc = "done" /\ NoDotBeforeFinal(args.dest)) =>
    out.finalDest =
      IF IntoDestination(World, args.dest)
      THEN Append(WithoutSlash(args.dest), basename(args.source))
      ELSE args.dest

\* ---------------------------------------------------------------------------
\* C23: dotted file names
\* ---------------------------------------------------------------------------

\* the specifier names auth.service without the extension
ExtensionlessAuthImport(f, specifier) ==
  specifier \in AuthImports(f) /\ basename(specifier) = <<"auth", "service">>

\* the run edited the i-th import of the file that was f when the run began
EditedImport(f, i) ==
  \E k \in 1..Len(out.edits) : out.edits[k].file = f /\ out.edits[k].import = i

\* C23: after moving src/services/auth.service.ts, every importer that
\* references it without extension ('../services/auth.service' in useAuth.ts,
\* './services/auth.service' in main.ts) has that specifier rewritten.
C23_DottedFileName ==
  (mode = "move" /\ pc = "done" /\ args.source = AuthService) =>
    \A f \in {UseAuth, Main} :
      \A i \in 1..Len(args.files0[f]) :
        ExtensionlessAuthImport(f, args.files0[f][i]) => EditedImport(f, i)

\* the importers that write the extension are rewritten
DottedFileNameWithExtension ==
  (mode = "move" /\ pc = "done" /\ args.source = AuthService) =>
    \A f \in {UseAuth, Main} :
      \A i \in 1..Len(args.files0[f]) :
        (args.files0[f][i] \in AuthImports(f) /\ extname(args.files0[f][i]) = "ts")
          => EditedImport(f, i)

\* ---------------------------------------------------------------------------
\* C24: barrel exports
\* ---------------------------------------------------------------------------

\* the specifiers of the statements of the form  <keyword> ... from '<specifier>'
\* that begin a line of the content
FromSpecifiers(content, keyword) ==
  {<<content[q + 1]>> : q \in
     {q \in 3..(Len(content) - 1) :
        /\ IsQuote(content[q]) /\ content[q - 1] = " " /\ content[q - 2] = "from"
        /\ \E p \in 1..q : /\ content[p] = keyword /\ AtLineStart(content, p)
                           /\ \A k \in p..(q - 1) : content[k] # NewLine}}

RecordedPaths == {out.imports[k].path : k \in 1..Len(out.imports)}

\* C24: every re-export statement  export ... from '<specifier>'  of a barrel
\* file is found by the parser like an import, so that a move can rewrite its
\* specifier: parseImports returns a record with that specifier.
C24_BarrelExports ==
  (mode = "parse" /\ pc # "parse" /\ args.content \in BarrelTexts) =>
    \A specifier \in FromSpecifiers(args.content, "export") : specifier \in RecordedPaths

\* the import statements of the same files are found
BarrelImportsFound ==
  (mode = "parse" /\ pc # "parse" /\ args.content \in BarrelTexts) =>
    \A specifier \in FromSpecifiers(args.content, "import") : specifier \in RecordedPaths

\* ---------------------------------------------------------------------------
\* C25: extension and index resolution
\* ---------------------------------------------------------------------------

RECURSIVE FirstFile(_, _)
FirstFile(w, candidates) ==
  IF candidates = <<>> THEN Null
  ELSE IF Head(candidates) \in DOMAIN w.files THEN Head(candidates)
  ELSE FirstFile(w, Tail(candidates))

\* C25: an extensionless specifier resolves to the first existing candidate
\* in the order <path>.ts, .tsx, .js, .jsx, .vue, <path>/index.ts, .tsx, .js,
\* .jsx, .vue, so a specifier naming a directory that holds index.ts and has
\* no same-named source file beside it resolves to that index.ts; it resolves
\* to null when no candidate exists.
C25_IndexResolution ==
  (mode = "find" /\ pc = "done") =>
    out.resolved = FirstFile(World, ExtensionCandidates(SrcUtils) \o IndexCandidates(SrcUtils))

\* the same on the file systems that hold no directory at the specifier's path
ResolutionWithoutDirectory ==
  (mode = "find" /\ pc = "done" /\ ~isDirectory(World, SrcUtils)) =>
    out.resolved = FirstFile(World, ExtensionCandidates(SrcUtils) \o IndexCandidates(SrcUtils))

\* ---------------------------------------------------------------------------
\* C26: rewrite precedes relocation
\* ---------------------------------------------------------------------------

\* the position in the log where the running step began (its enumeration)
StepStart ==
  LET at == {k \in 1..Len(out.log) : out.log[k].op = "findAllFiles"}
  IN IF at = {} THEN 0 ELSE CHOOSE k \in at : \A j \in at : j <= k

\* the step's log entries, in order
StepLog == SubSeq(out.log, StepStart + 1, Len(out.log))

\* every write of the step went to a path that held a file when the step
\* began, and no write follows the step's physical move
WritesBeforeRelocation ==
  \A j \in 1..Len(StepLog) :
    StepLog[j].op = "writeFile" =>
      /\ StepLog[j].path \in DOMAIN out.snapshot
      /\ \A i \in 1..(j - 1) : StepLog[i].op # "performMove"

\* a non-dry-run step has ended without error: the literal move, or the last
\* item of a fan-out
StepEnded ==
  /\ mode = "move" /\ ~args.dryRun /\ out.source # Null
  /\ \/ ~args.useGlobPattern /\ pc = "done"
     \/ /\ args.useGlobPattern /\ pc = "item"
        /\ (out.failed = <<>> \/ out.failed[Len(out.failed)] # out.source)

\* the step's edits of the file that was at path f when the step began
StepChanges(f) ==
  LET to == getNewPathAfterMove(f, out.source, out.finalDest)
      at == {k \in 1..Len(out.results) : out.results[k].filePath = to}
  IN IF at = {} THEN <<>> ELSE out.results[CHOOSE k \in at : TRUE].changes

\* the file relocated from f holds, at its new path, the content it had when
\* the step began with exactly the step's edits applied
CarriesRewrite(f) ==
  LET to == getNewPathAfterMove(f, out.source, out.finalDest)
      changes == StepChanges(f)
  IN /\ to \in DOMAIN files
     /\ Len(files[to]) = Len(out.snapshot[f])
     /\ \A i \in 1..Len(out.snapshot[f]) :
          files[to][i] =
            IF \E k \in 1..Len(changes) : changes[k].line = i
            THEN changes[CHOOSE k \in 1..Len(changes) : changes[k].line = i].to
            ELSE out.snapshot[f][i]

Relocated(f) == isPathAffectedByMove(f, out.source)

\* the post-move paths of the files the step relocates
PostMovePaths ==
  {getNewPathAfterMove(f, out.source, out.finalDest) : f \in {g \in DOMAIN out.snapshot : Relocated(g)}}

\* C26: within one non-dry-run move step every content write goes to the
\* file's pre-move path and is made before the physical move; after the step
\* each relocated file that had edits holds the rewritten content at its
\* post-move path, and no file remains at a pre-move path under the source
\* (a path under the source holds a file only if it is a post-move path, as
\* when the source is moved onto itself).
C26_RewriteBeforeRelocation ==
  (mode = "move" /\ ~args.dryRun) =>
    /\ WritesBeforeRelocation
    /\ StepEnded =>
         /\ \A f \in DOMAIN out.snapshot :
              (Relocated(f) /\ StepChanges(f) # <<>>) => CarriesRewrite(f)
         /\ \A p \in DOMAIN files :
              isPathAffectedByMove(p, out.source) => p \in PostMovePaths

\* a step has ended in which a relocated file had edits
C26_Witness ==
  /\ StepEnded
  /\ \E f \in DOMAIN out.snapshot :
       /\ Relocated(f) /\ StepChanges(f) # <<>> /\ CarriesRewrite(f)
       /\ f \notin DOMAIN files
       /\ \E j \in 1..Len(StepLog) : StepLog[j] = [op |-> "writeFile", path |-> f]

\* ---------------------------------------------------------------------------
\* C27: sequential fan-out
\* ---------------------------------------------------------------------------

\* an item of the fan-out has just been analysed: nothing of its step is
\* logged after its enumeration
ItemAnalysed ==
  /\ mode = "move" /\ args.useGlobPattern /\ pc = "rewrite"
  /\ StepStart > 0 /\ StepLog = <<>>

\* the items moved by earlier steps of the fan-out
EarlierMoved ==
  {out.log[k].path : k \in {j \in 1..StepStart : out.log[j].op = "performMove"}}
    \ {out.failed[k] : k \in 1..Len(out.failed)}

\* the edits made by earlier steps
EarlierEdits == {k \in 1..Len(out.edits) : out.edits[k].item # out.source}

\* the path at which the snapshot lists the file that began the run at path f
ListedAt(f) == {q \in DOMAIN out.snapshot : out.origin[q] = f}

\* the log of a fan-out is a sequence of steps: an enumeration, then the
\* step's writes, then its physical move; nothing of one step lies inside
\* another
StepsInSequence ==
  \A j \in 2..Len(out.log) :
    /\ out.log[j].op = "writeFile" => out.log[j - 1].op \in {"findAllFiles", "writeFile"}
    /\ out.log[j].op = "performMove" => out.log[j - 1].op \in {"findAllFiles", "writeFile"}
    /\ (out.log[j].op = "findAllFiles" /\ ~args.dryRun) =>
         out.log[j - 1].op \in {"performMove", "globby", "mkdir"}

\* C27: in a glob move the items are processed one after another, and the
\* snapshot an item's Analyze takes is the project as the earlier items left
\* it: it lists every file at its current location with its current content,
\* the earlier items at their new locations, and the specifiers the earlier
\* items edited in their edited form.
C27_SequentialFanOut ==
  /\ (mode = "move" /\ args.useGlobPattern) => StepsInSequence
  /\ ItemAnalysed =>
       /\ DOMAIN out.snapshot = DOMAIN findAllFiles(World)
       /\ \A p \in DOMAIN out.snapshot : out.snapshot[p] = files[p]
       /\ \A m \in EarlierMoved :
            /\ m \notin DOMAIN out.snapshot
            /\ calculateGlobDestination(m, args.dest) \in DOMAIN out.snapshot
       /\ \A k \in EarlierEdits :
            ~args.dryRun =>
              \E q \in ListedAt(out.edits[k].file) :
                out.snapshot[q][out.edits[k].import]
                  # args.files0[out.edits[k].file][out.edits[k].import]

\* the second item of a fan-out is analysed after the first was moved and a
\* file was edited for it
C27_Witness ==
  /\ ItemAnalysed /\ ~args.dryRun
  /\ EarlierMoved # {} /\ EarlierEdits # {}
  /\ \E k \in EarlierEdits : out.edits[k].file \in DOMAIN args.files0

\* ---------------------------------------------------------------------------
\* C28: references harvest
\* ---------------------------------------------------------------------------

\* the references the parsed config lists (its own, or the ones of the config
\* it extends)
ListedReferences ==
  IF "references" \in DOMAIN configs[ProjConfig] THEN configs[ProjConfig].references
  ELSE configs[SolutionBase].references

\* the aliases the i-th listed reference defines: none when its config is
\* missing or unparsable
DefinedBy(i) ==
  LET refPath == resolve(Proj, ListedReferences[i])
  IN IF refPath \notin DOMAIN configs \/ configs[refPath].malformed THEN {}
     ELSE LET defined == PathsToAliases(configs[refPath].paths, <<Cur>>, Proj)
          IN {defined[k] : k \in 1..Len(defined)}

\* the aliases of the config's own mapping
OwnAliases == PathsToAliases(configs[ProjConfig].paths, <<Cur>>, Proj)

DescendingLength(aliases) ==
  \A k \in 1..(Len(aliases) - 1) :
    PathLen(aliases[k].alias) >= PathLen(aliases[k + 1].alias)

StillPresent(f) == \E q \in DOMAIN files : out.origin[q] = f

\* C29: a non-dry-run move never replaces or destroys an existing file: when
\* the run has ended, every file the project held before the move, the ones
\* that lay at an item's effective destination included, is still present.
C29_NoFileLost ==
  (mode = "move" /\ ~args.dryRun /\ pc = "done") =>
    \A f \in DOMAIN args.files0 : StillPresent(f)

\* the same for the runs in which no file lies at a path a moved file is
\* moved to
NoFileLostAtFreeDestination ==
  (mode = "move" /\ ~args.dryRun /\ pc = "done"
     /\ DOMAIN args.files0 \cap {BX, BAX} = {}) =>
    \A f \in DOMAIN args.files0 : StillPresent(f)

\* ---------------------------------------------------------------------------
\* C30: untouched files
\* ---------------------------------------------------------------------------

\* the run made an edit in the file that began the run at path f
EditedFile(f) == \E k \in 1..Len(out.edits) : out.edits[k].file = f

\* the file that began the run at path f is in the project with the content
\* it had then
ContentKept(f) ==
  \E q \in DOMAIN files : out.origin[q] = f /\ files[q] = args.files0[f]

\* Analyze flags f for the literal source of the run
FlaggedAtStart(f) ==
  fileNeedsUpdate([files |-> args.files0, dirs |-> args.dirs0, configs |-> configs],
                  f, args.files0[f], args.source)

\* C30: a move writes new content only to files that Analyze flagged and for
\* which Rewrite produced an edit; every other file of the project has, after
\* the move, the content it had before.
C30_UntouchedFiles ==
  (mode = "move" /\ ~args.dryRun /\ pc = "done") =>
    \A f \in DOMAIN args.files0 :
      /\ ~EditedFile(f) => ContentKept(f)
      /\ (EditedFile(f) /\ ~args.useGlobPattern) => FlaggedAtStart(f)

\* the same for the runs in which no file lies at a path a moved file is
\* moved to; the file under src/ab is not touched by a move of src/a
UntouchedAtFreeDestination ==
  (mode = "move" /\ ~args.dryRun /\ pc = "done"
     /\ DOMAIN args.files0 \cap {BX, BAX} = {}) =>
    /\ \A f \in DOMAIN args.files0 :
         /\ ~EditedFile(f) => ContentKept(f)
         /\ (EditedFile(f) /\ ~args.useGlobPattern) => FlaggedAtStart(f)
    /\ ABX \in DOMAIN args.files0 =>
         /\ ABX \in DOMAIN files /\ files[ABX] = args.files0[ABX]
         /\ \A k \in 1..Len(out.log) : out.log[k].path # ABX

====
